---- MODULE Spec2Model ----
\* Lead ingestion core of the fqgw backend: the rate limiter, the duplicate
\* detector, the file-backed record store with its promise write queue
\* (the JSON-file server) and the outbound-sync server (backend/server.js).
\*
\* JavaScript strings are sequences of one-character strings, JSON values are
\* tagged records [t |-> "str" | "arr" | "num" | "undef", v |-> ...], and
\* times are integer milliseconds since the epoch.
EXTENDS Integers, Sequences, FiniteSets, TLC

VARIABLES
    variant,        \* "file": the JSON-file server; "sync": backend/server.js
    now,            \* Date.now()
    ticks,          \* how often the clock has advanced (bounded)
    rateLimitStore, \* Map key -> [windowStart, count]
    verdicts,       \* history: per key, the limiter's answers in the key's current window
    winStart,       \* history: per key, the time of the request that opened that window
    lastCheck,      \* history: the last limiter check, what it found and what it left
    req,            \* the requests: slot -> the handler's locals and position
    file,           \* content of DATA_FILE: Absent or a text (sequence of tokens)
    writeQueue,     \* the tasks chained on the writeQueue promise that have not settled
    rejected,       \* the writeQueue promise chain holds a rejection
    duplicateStore, \* Map duplicateKey -> submittedAt
    outbound,       \* the records created in the outbound table
    faults,         \* how many storage / outbound faults have been injected (bounded)
    hist,           \* history of the run, read only by the properties
    query           \* an admin query: its parameters, position and response

vars == <<variant, now, ticks, rateLimitStore, verdicts, winStart, lastCheck, req,
          file, writeQueue, rejected, duplicateStore, outbound, faults, hist, query>>

-----------------------------------------------------------------------------
\* Program constants

RATE_LIMIT_WINDOW_MS == 60 * 1000

RATE_LIMIT_MAX_REQUESTS == 12

DUPLICATE_WINDOW_MS == 10 * 60 * 1000

PHONE_MAX_LEN == 20

NAME_MAX_LEN == 40

SOURCE_MAX_LEN == 40

PRODUCT_MAX_LEN == 30

-----------------------------------------------------------------------------
\* Bounds of the model

\* requests of one key the limiter model lets into one window
MaxChecks == 14

\* clock advances in the limiter model
MaxRateTicks == 3

-----------------------------------------------------------------------------
\* Strings

Digits == {"0", "1", "2", "3", "4", "5", "6", "7", "8", "9"}

Whitespace == {" "}

Str(v) == [t |-> "str", v |-> v]

Undefined == [t |-> "undef", v |-> <<>>]

Num == [t |-> "num", v |-> <<>>]

Arr(v) == [t |-> "arr", v |-> v]

RECURSIVE TrimStart(_)
TrimStart(s) ==
    IF s # <<>> /\ Head(s) \in Whitespace THEN TrimStart(Tail(s)) ELSE s

RECURSIVE TrimEnd(_)
TrimEnd(s) ==
    IF s # <<>> /\ s[Len(s)] \in Whitespace
    THEN TrimEnd(SubSeq(s, 1, Len(s) - 1))
    ELSE s

Trim(s) == TrimEnd(TrimStart(s))

Slice(s, maxLength) == SubSeq(s, 1, IF Len(s) < maxLength THEN Len(s) ELSE maxLength)

\* normalizeText with a slip: the text is not cut to maxLength
normalizeTextUncut(value, maxLength) ==
    IF value.t # "str" THEN <<>> ELSE Trim(value.v)

\* normalizeText(value, maxLength): "" for a non-string, else trim().slice(0, maxLength)
normalizeText(value, maxLength) ==
    IF value.t # "str" THEN <<>> ELSE Slice(Trim(value.v), maxLength)

\* [...new Set(items)]: first occurrences, in insertion order
RECURSIVE Dedupe(_)
Dedupe(s) ==
    IF s = <<>> THEN <<>>
    ELSE LET init == Dedupe(SubSeq(s, 1, Len(s) - 1))
             last == s[Len(s)]
         IN IF \E i \in 1..Len(init) : init[i] = last THEN init ELSE Append(init, last)

RECURSIVE NormalizeEach(_)
NormalizeEach(items) ==
    IF items = <<>> THEN <<>>
    ELSE LET n == normalizeText(Head(items), PRODUCT_MAX_LEN)
         IN (IF n = <<>> THEN <<>> ELSE <<n>>) \o NormalizeEach(Tail(items))

\* normalizeProductList with a slip: repeated entries are kept
normalizeProductListRepeating(list) ==
    IF list.t # "arr" THEN <<>> ELSE NormalizeEach(list.v)

normalizeProductList(list) ==
    IF list.t # "arr" THEN <<>> ELSE Dedupe(NormalizeEach(list.v))

\* isValidPhone with a slip: the leading 1 is not required
isValidPhoneAnyLead(phone) ==
    /\ Len(phone) = 11
    /\ \A i \in 1..11 : phone[i] \in Digits

\* /^1\d{10}$/.test(phone)
isValidPhone(phone) ==
    /\ Len(phone) = 11
    /\ phone[1] = "1"
    /\ \A i \in 2..11 : phone[i] \in Digits

\* value || "unknown": the falsy values are undefined and the empty string
OrUnknown(value) ==
    IF value.t = "undef" \/ (value.t = "str" /\ value.v = <<>>)
    THEN Str(<<"u", "n", "k", "n", "o", "w", "n">>)
    ELSE value

-----------------------------------------------------------------------------
\* Dates: new Date(ms).toISOString() and Date.parse(iso). An ISO time is the
\* record of the fields the text spells out.

MsPerDay == 24 * 60 * 60 * 1000

toISOString(ms) ==
    LET days == ms \div MsPerDay
        rem  == ms % MsPerDay
        z    == days + 719468
        era  == z \div 146097
        doe  == z - era * 146097
        yoe  == (doe - (doe \div 1460) + (doe \div 36524) - (doe \div 146096)) \div 365
        doy  == doe - (365 * yoe + (yoe \div 4) - (yoe \div 100))
        mp   == (5 * doy + 2) \div 153
        d    == doy - ((153 * mp + 2) \div 5) + 1
        m    == IF mp < 10 THEN mp + 3 ELSE mp - 9
        y    == yoe + era * 400 + (IF m <= 2 THEN 1 ELSE 0)
    IN [year |-> y, month |-> m, day |-> d,
        hour |-> rem \div 3600000,
        minute |-> (rem % 3600000) \div 60000,
        second |-> (rem % 60000) \div 1000,
        ms |-> rem % 1000]

NaN == -1

DaysInMonth(y, m) ==
    IF m = 2 THEN (IF (y % 4 = 0 /\ y % 100 # 0) \/ y % 400 = 0 THEN 29 ELSE 28)
    ELSE IF m \in {4, 6, 9, 11} THEN 30 ELSE 31

\* Date.parse: NaN for a text that is no ISO time
DateParse(iso) ==
    IF \/ iso.month \notin 1..12
       \/ iso.day \notin 1..DaysInMonth(iso.year, iso.month)
       \/ iso.hour \notin 0..23 \/ iso.minute \notin 0..59
       \/ iso.second \notin 0..59 \/ iso.ms \notin 0..999
    THEN NaN
    ELSE LET y   == iso.year - (IF iso.month <= 2 THEN 1 ELSE 0)
             era == y \div 400
             yoe == y - era * 400
             mp  == IF iso.month > 2 THEN iso.month - 3 ELSE iso.month + 9
             doy == ((153 * mp + 2) \div 5) + iso.day - 1
             doe == yoe * 365 + (yoe \div 4) - (yoe \div 100) + doy
             days == era * 146097 + doe - 719468
         IN days * MsPerDay + iso.hour * 3600000 + iso.minute * 60000
            + iso.second * 1000 + iso.ms

\* The local time of the server is UTC+8, without daylight saving
LocalOffsetMs == 8 * 60 * 60 * 1000

\* new Date(date.getFullYear(), date.getMonth(), date.getDate()).getTime():
\* the local midnight of the local day of the time t
startOfLocalDay(t) == t - ((t + LocalOffsetMs) % MsPerDay)

\* countToday with a slip: the day starts at the midnight of UTC
countTodayUtc(records, t) ==
    LET start == t - (t % MsPerDay)
    IN Cardinality({i \in 1..Len(records) :
                       LET ts == DateParse(records[i].createdAt)
                       IN ts # NaN /\ ts >= start /\ ts <= t})

\* countToday(records, now)
countToday(records, t) ==
    LET start == startOfLocalDay(t)
    IN Cardinality({i \in 1..Len(records) :
                       LET ts == DateParse(records[i].createdAt)
                       IN ts # NaN /\ ts >= start /\ ts <= t})

-----------------------------------------------------------------------------
\* Rate limiter

\* cleanupRateLimitStore with a slip: no entry is deleted
cleanupRateLimitStoreNone(store, t) == store

\* cleanupRateLimitStore(now): delete every entry with now - windowStart >= window
cleanupRateLimitStore(store, t) ==
    LET keep == {k \in DOMAIN store : ~(t - store[k].windowStart >= RATE_LIMIT_WINDOW_MS)}
    IN [k \in keep |-> store[k]]

\* the comparison with a slip: the 12th request is already rejected
RateCountExceeds(count) == count >= RATE_LIMIT_MAX_REQUESTS

\* the comparison with a slip: the 13th request still passes
RateCountExceededLate(count) == count > RATE_LIMIT_MAX_REQUESTS + 1

RateCountExceeded(count) == count > RATE_LIMIT_MAX_REQUESTS

RateEntryStale(entry, t) == t - entry.windowStart >= RATE_LIMIT_WINDOW_MS

\* isRateLimited with a slip: a request inside a window restarts the window
isRateLimitedSliding(store, key, t) ==
    LET cleaned == cleanupRateLimitStore(store, t)
    IN IF key \notin DOMAIN cleaned \/ RateEntryStale(cleaned[key], t)
       THEN [store |-> [k \in DOMAIN cleaned \cup {key} |->
                           IF k = key THEN [windowStart |-> t, count |-> 1]
                           ELSE cleaned[k]],
             limited |-> FALSE]
       ELSE LET count == cleaned[key].count + 1
            IN [store |-> [cleaned EXCEPT ![key] = [windowStart |-> t, count |-> count]],
                limited |-> RateCountExceeded(count)]

\* isRateLimited with a slip: the request is not counted
isRateLimitedUncounted(store, key, t) ==
    [store |-> cleanupRateLimitStore(store, t), limited |-> FALSE]

\* isRateLimited with a slip: a new window replaces the table
isRateLimitedClearing(store, key, t) ==
    LET cleaned == cleanupRateLimitStore(store, t)
    IN IF key \notin DOMAIN cleaned \/ RateEntryStale(cleaned[key], t)
       THEN [store |-> [k \in {key} |-> [windowStart |-> t, count |-> 1]],
             limited |-> FALSE]
       ELSE LET count == cleaned[key].count + 1
            IN [store |-> [cleaned EXCEPT ![key].count = count],
                limited |-> RateCountExceeded(count)]

\* isRateLimited(key, now): the store after the call and the answer
isRateLimited(store, key, t) ==
    LET cleaned == cleanupRateLimitStore(store, t)
    IN IF key \notin DOMAIN cleaned \/ RateEntryStale(cleaned[key], t)
       THEN [store |-> [k \in DOMAIN cleaned \cup {key} |->
                           IF k = key THEN [windowStart |-> t, count |-> 1]
                           ELSE cleaned[k]],
             limited |-> FALSE]
       ELSE LET count == cleaned[key].count + 1
            IN [store |-> [cleaned EXCEPT ![key].count = count],
                limited |-> RateCountExceeded(count)]

-----------------------------------------------------------------------------
\* Requests and keys

Ips == {"ip1", "ip2"}

Endpoints == {"consultation", "phone"}

\* rateLimitKey = `${clientIp}:${url.pathname}`
rateLimitKey(ip, endpoint) == <<ip, endpoint>>

\* the keys the limiter model exercises
RateKeys == {rateLimitKey("ip1", e) : e \in Endpoints}

NoCheck == [key |-> <<>>, at |-> 0, opened |-> FALSE, start |-> 0, n |-> 0,
            windowStart |-> 0, count |-> 0, limited |-> FALSE,
            prevStart |-> 0, prevLimited |-> FALSE]

\* History of a limiter check at time t for key k with result r: a window of k
\* opens with k's first request, and with the first request at or after the
\* end of k's window; every other request is one more request of the window.
WindowOpens(k, t) ==
    verdicts[k] = <<>> \/ t - winStart[k] >= RATE_LIMIT_WINDOW_MS

RecordCheck(k, t, r) ==
    LET opened == WindowOpens(k, t)
        start  == IF opened THEN t ELSE winStart[k]
        seen   == IF opened THEN <<r.limited>> ELSE Append(verdicts[k], r.limited)
    IN /\ winStart' = [winStart EXCEPT ![k] = start]
       /\ verdicts' = [verdicts EXCEPT ![k] = seen]
       /\ lastCheck' = [key |-> k, at |-> t, opened |-> opened, start |-> start,
                        n |-> Len(seen),
                        windowStart |-> r.store[k].windowStart,
                        count |-> r.store[k].count,
                        limited |-> r.limited,
                        prevStart |-> winStart[k],
                        prevLimited |-> /\ verdicts[k] # <<>>
                                        /\ verdicts[k][Len(verdicts[k])]]

-----------------------------------------------------------------------------
\* Code-unit order of the characters the inputs use, and Array.prototype.sort()
\* on strings (the default comparator orders by UTF-16 code units)

Chars == <<" ", ",", "/", "0", "1", "2", "3", "4", "5", "6", "7", "8", "9",
           "A", "B", "a", "b", "c", "k", "l", "n", "o", "p", "t", "u", "w", "x", "y", "|">>

CodeOf(c) == CHOOSE i \in 1..Len(Chars) : Chars[i] = c

RECURSIVE StrLess(_, _)
StrLess(a, b) ==
    IF a = <<>> THEN b # <<>>
    ELSE IF b = <<>> THEN FALSE
    ELSE IF Head(a) = Head(b) THEN StrLess(Tail(a), Tail(b))
    ELSE CodeOf(Head(a)) < CodeOf(Head(b))

RECURSIVE InsertSorted(_, _)
InsertSorted(sorted, x) ==
    IF sorted = <<>> THEN <<x>>
    ELSE IF StrLess(x, Head(sorted)) THEN <<x>> \o sorted
    ELSE <<Head(sorted)>> \o InsertSorted(Tail(sorted), x)

RECURSIVE SortStrings(_)
SortStrings(list) ==
    IF list = <<>> THEN <<>>
    ELSE InsertSorted(SortStrings(SubSeq(list, 1, Len(list) - 1)), list[Len(list)])

RECURSIVE Join(_, _)
Join(list, sep) ==
    IF list = <<>> THEN <<>>
    ELSE IF Len(list) = 1 THEN list[1]
    ELSE list[1] \o sep \o Join(Tail(list), sep)

-----------------------------------------------------------------------------
\* Duplicate detection over the stored records (the JSON-file server)

\* happenedWithinWindow with a slip: the boundary instant is outside the window
happenedStrictlyWithinWindow(isoTime, t, windowMs) ==
    LET ts == DateParse(isoTime)
    IN IF ts = NaN THEN FALSE ELSE t - ts < windowMs

happenedWithinWindow(isoTime, t, windowMs) ==
    LET ts == DateParse(isoTime)
    IN IF ts = NaN THEN FALSE ELSE t - ts <= windowMs

sameProductSet(a, b) ==
    IF Len(a) # Len(b) THEN FALSE
    ELSE LET sortedA == SortStrings(a)
             sortedB == SortStrings(b)
         IN \A index \in 1..Len(sortedA) : sortedA[index] = sortedB[index]

isDuplicateConsultation(records, incoming, t) ==
    \E i \in 1..Len(records) :
        /\ records[i].phone = incoming.phone
        /\ records[i].source = incoming.source
        /\ happenedWithinWindow(records[i].createdAt, t, DUPLICATE_WINDOW_MS)
        /\ sameProductSet(records[i].products, incoming.products)

isDuplicatePhoneLead(records, incoming, t) ==
    \E i \in 1..Len(records) :
        /\ records[i].phone = incoming.phone
        /\ records[i].source = incoming.source
        /\ happenedWithinWindow(records[i].createdAt, t, DUPLICATE_WINDOW_MS)

-----------------------------------------------------------------------------
\* Duplicate detection over the in-memory key table (backend/server.js)

KeyConsultation == <<"c", "o", "n", "s", "u", "l", "t", "a", "t", "i", "o", "n", "|">>

KeyPhone == <<"p", "h", "o", "n", "e", "|">>

\* `consultation|${phone}|${sourcePage}|${[...intentionProducts].sort().join(",")}`
consultationDuplicateKey(phone, sourcePage, products) ==
    KeyConsultation \o phone \o <<"|">> \o sourcePage \o <<"|">>
        \o Join(SortStrings(products), <<",">>)

\* `phone|${phone}|${source}`
phoneDuplicateKey(phone, source) == KeyPhone \o phone \o <<"|">> \o source

cleanupDuplicateStore(store, t) ==
    LET keep == {k \in DOMAIN store : ~(t - store[k] > DUPLICATE_WINDOW_MS)}
    IN [k \in keep |-> store[k]]

\* hasDuplicateSubmission(key, now): the table after the call and the answer;
\* prev && ... is false for a missing entry and for the time 0
hasDuplicateSubmission(store, key, t) ==
    LET cleaned == cleanupDuplicateStore(store, t)
    IN [store |-> cleaned,
        dup |-> /\ key \in DOMAIN cleaned
                /\ cleaned[key] # 0
                /\ t - cleaned[key] <= DUPLICATE_WINDOW_MS]

markDuplicateSubmission(store, key, t) ==
    [k \in DOMAIN store \cup {key} |-> IF k = key THEN t ELSE store[k]]

-----------------------------------------------------------------------------
\* The data file: JSON.stringify writes a text, JSON.parse reads one back. A
\* text is a sequence of tokens; fs.writeFile opens the file with O_TRUNC and
\* then writes, so a reader between the two steps (or after a failure between
\* them) sees a proper prefix of the text, which JSON.parse rejects. Every
\* proper prefix behaves as the empty one does.

Absent == <<[tok |-> "absent", coll |-> "", rec |-> <<>>]>>

OpenTok == [tok |-> "{", coll |-> "", rec |-> <<>>]

CloseTok == [tok |-> "}", coll |-> "", rec |-> <<>>]

RecTok(coll, r) == [tok |-> "record", coll |-> coll, rec |-> r]

RECURSIVE RecToks(_, _)
RecToks(coll, records) ==
    IF records = <<>> THEN <<>>
    ELSE <<RecTok(coll, Head(records))>> \o RecToks(coll, Tail(records))

JSONStringify(data) ==
    <<OpenTok>> \o RecToks("consultations", data.consultations)
        \o RecToks("phoneLeads", data.phoneLeads) \o <<CloseTok>>

RECURSIVE RecsOf(_, _)
RecsOf(text, coll) ==
    IF text = <<>> THEN <<>>
    ELSE (IF Head(text).tok = "record" /\ Head(text).coll = coll
          THEN <<Head(text).rec>> ELSE <<>>) \o RecsOf(Tail(text), coll)

Parses(text) ==
    /\ Len(text) >= 2
    /\ text[1].tok = "{"
    /\ text[Len(text)].tok = "}"

\* JSON.parse(raw) and the normalisation of readData
JSONParse(text) ==
    [consultations |-> RecsOf(text, "consultations"),
     phoneLeads |-> RecsOf(text, "phoneLeads")]

initialData == [consultations |-> <<>>, phoneLeads |-> <<>>]

-----------------------------------------------------------------------------
\* Bounds of the request model

\* submission requests (POST)
NumPosts == 2

\* read requests (GET /api/leads)
NumGets == 1

\* clock advances
MaxTicks == 1

\* storage and outbound faults
MaxFaults == 1

\* bursts of requests with malformed bodies
MaxBursts == 1

\* clock advances while the requests come one after the other
MaxSeqTicks == 2

\* how far a submitted text exceeds the length it is cut to
MaxExcess == 1

-----------------------------------------------------------------------------
\* The requests the environment sends

Posts == 1..NumPosts

Gets == (NumPosts + 1)..(NumPosts + NumGets)

Slots == Posts \cup Gets

PhoneA == <<"1", "3", "8", "0", "0", "0", "0", "0", "0", "0", "0">>

\* eleven digits that do not start with 1
PhoneNoLead == <<"2", "3", "8", "0", "0", "0", "0", "0", "0", "0", "0">>

NoBody == [json |-> "none", endpoint |-> "", name |-> Undefined, phone |-> Undefined,
           source |-> Undefined, products |-> Undefined]

ConsultationBody(name, phone, sourcePage, products) ==
    [json |-> "ok", endpoint |-> "consultation", name |-> name, phone |-> phone,
     source |-> sourcePage, products |-> products]

PhoneBody(phone, source) ==
    [json |-> "ok", endpoint |-> "phone", name |-> Undefined, phone |-> phone,
     source |-> source, products |-> Undefined]

Bodies ==
    { ConsultationBody(Str(<<"A", "l">>), Str(PhoneA), Str(<<"/", "a">>),
                       Arr(<<Str(<<"x">>), Str(<<"y">>)>>)),
      \* the same lead again: padded phone, products in another order and repeated
      ConsultationBody(Str(<<"B", "o">>), Str(<<" ">> \o PhoneA \o <<" ">>), Str(<<"/", "a">>),
                       Arr(<<Str(<<"y">>), Str(<<"x">>), Str(<<"y", " ">>)>>)),
      [NoBody EXCEPT !.json = "invalid", !.endpoint = "consultation"],
      PhoneBody(Str(PhoneA), Str(<<"c", "t", "a">>)),
      PhoneBody(Str(PhoneNoLead), Undefined) }

NoRecord == [id |-> 0, endpoint |-> "", name |-> <<>>, phone |-> <<>>, source |-> <<>>,
             products |-> <<>>, createdAt |-> toISOString(0)]

IdleReq ==
    [pc |-> "idle", endpoint |-> "", body |-> NoBody, status |-> 0,
     record |-> NoRecord, at |-> 0, next |-> <<>>, duplicated |-> FALSE,
     \* history, read only by the properties
     limited |-> FALSE, ran |-> FALSE, wrote |-> FALSE, failedWrite |-> FALSE,
     intact |-> TRUE, readText |-> <<>>, stale |-> FALSE, inflight |-> {},
     prior |-> {}, acceptedAt |-> 0, counted |-> FALSE]

InFlight == {s \in Slots : req[s].pc \notin {"idle", "done"}}

Finished == {s \in Slots : req[s].pc = "done"}

\* the submissions in flight, and those answered
PostsInFlight == InFlight \cap Posts

PostsFinished == Finished \cap Posts

Finish(r, status) == [r EXCEPT !.pc = "done", !.status = status]

-----------------------------------------------------------------------------
\* The normalizer of the submission handlers

\* the sourcePage / source field: normalizeText(value || "unknown", 40), and in
\* backend/server.js again || "unknown"
normalizeSource(value) ==
    LET text == normalizeText(OrUnknown(value), SOURCE_MAX_LEN)
    IN IF variant = "sync" /\ text = <<>> THEN OrUnknown(Undefined).v ELSE text

\* the fields of the record a body yields
Normalized(body) ==
    [name |-> normalizeText(body.name, NAME_MAX_LEN),
     phone |-> normalizeText(body.phone, PHONE_MAX_LEN),
     source |-> normalizeSource(body.source),
     products |-> normalizeProductList(body.products)]

\* the validation of the two handlers
IsValidSubmission(endpoint, n) ==
    IF endpoint = "consultation"
    THEN ~(n.name = <<>> \/ ~isValidPhone(n.phone) \/ Len(n.products) = 0)
    ELSE isValidPhone(n.phone)

\* the record the handler builds: id is the request's randomUUID()
NewRecord(s, endpoint, n, t) ==
    [id |-> s, endpoint |-> endpoint,
     name |-> IF endpoint = "consultation" THEN n.name ELSE <<>>,
     phone |-> n.phone, source |-> n.source,
     products |-> IF endpoint = "consultation" THEN n.products ELSE <<>>,
     createdAt |-> toISOString(t)]

-----------------------------------------------------------------------------
\* The limiter alone: requests of RateKeys reach isRateLimited, the clock advances

RateTickSteps == {1, RATE_LIMIT_WINDOW_MS - 1, RATE_LIMIT_WINDOW_MS}

InitLimiter ==
    /\ now = MsPerDay - 1
    /\ ticks = 0
    /\ rateLimitStore = <<>>
    /\ verdicts = [k \in Ips \X Endpoints |-> <<>>]
    /\ winStart = [k \in Ips \X Endpoints |-> 0]
    /\ lastCheck = NoCheck

RateCheck(k) ==
    /\ WindowOpens(k, now) \/ Len(verdicts[k]) < MaxChecks
    /\ LET r == isRateLimited(rateLimitStore, k, now)
       IN /\ rateLimitStore' = r.store
          /\ RecordCheck(k, now, r)
    /\ UNCHANGED <<variant, now, ticks, req, file, writeQueue, rejected,
                   duplicateStore, outbound, faults, hist, query>>

RateTick(d) ==
    /\ ticks < MaxRateTicks
    /\ now' = now + d
    /\ ticks' = ticks + 1
    /\ UNCHANGED <<variant, rateLimitStore, verdicts, winStart, lastCheck, req, file,
                   writeQueue, rejected, duplicateStore, outbound, faults, hist, query>>

InitRate ==
    /\ InitLimiter
    /\ variant = "sync"
    /\ req = <<>>
    /\ file = <<>>
    /\ writeQueue = <<>>
    /\ rejected = FALSE
    /\ duplicateStore = <<>>
    /\ outbound = <<>>
    /\ faults = 0
    /\ hist = <<>>
    /\ query = <<>>

NextRate ==
    \/ \E k \in RateKeys : RateCheck(k)
    \/ \E d \in RateTickSteps : RateTick(d)

SpecRate == InitRate /\ [][NextRate]_vars

-----------------------------------------------------------------------------
\* The limiter under the requests of one key, with the history of the
\* requests it let pass: for each, its time and the windowStart of its entry

BurstKey == rateLimitKey("ip1", "consultation")

InitBurst ==
    /\ InitLimiter
    /\ variant = "sync"
    /\ req = <<>>
    /\ file = <<>>
    /\ writeQueue = <<>>
    /\ rejected = FALSE
    /\ duplicateStore = <<>>
    /\ outbound = <<>>
    /\ faults = 0
    /\ hist = <<>>
    /\ query = <<>>

BurstCheck(k) ==
    /\ WindowOpens(k, now) \/ Len(verdicts[k]) < MaxChecks
    /\ LET r == isRateLimited(rateLimitStore, k, now)
       IN /\ rateLimitStore' = r.store
          /\ RecordCheck(k, now, r)
          /\ hist' = IF r.limited THEN hist
                     ELSE Append(hist, [at |-> now, start |-> r.store[k].windowStart])
    /\ UNCHANGED <<variant, now, ticks, req, file, writeQueue, rejected,
                   duplicateStore, outbound, faults, query>>

NextBurst ==
    \/ BurstCheck(BurstKey)
    \/ \E d \in RateTickSteps : RateTick(d)

SpecBurst == InitBurst /\ [][NextBurst]_vars

-----------------------------------------------------------------------------
\* Actions shared by the two servers

\* Arrive with a slip: the body is parsed before the limiter is consulted, so
\* a body that does not parse is not counted
ArriveParsedFirst(s, b) ==
    /\ s \in Posts
    /\ req[s].pc = "idle"
    /\ \A earlier \in Posts : earlier < s => req[earlier].pc # "idle"
    /\ LET r == IF b.json # "ok"
                THEN [store |-> rateLimitStore, limited |-> FALSE]
                ELSE isRateLimited(rateLimitStore, rateLimitKey("ip1", b.endpoint), now)
       IN /\ rateLimitStore' = r.store
          /\ req' = [req EXCEPT ![s] =
                        [(IF r.limited THEN Finish(@, 429) ELSE [@ EXCEPT !.pc = "body"])
                            EXCEPT !.endpoint = b.endpoint, !.body = b,
                                   !.limited = r.limited, !.counted = TRUE,
                                   !.inflight = PostsInFlight, !.prior = PostsFinished]]
    /\ UNCHANGED <<variant, now, ticks, verdicts, winStart, lastCheck, file, writeQueue,
                   rejected, duplicateStore, outbound, faults, hist, query>>

\* A POST request arrives: the handler consults the limiter before it reads
\* the body (all requests of the model come from one client address; the
\* slots, which only name the requests, are taken in order).
Arrive(s, b) ==
    /\ s \in Posts
    /\ req[s].pc = "idle"
    /\ \A earlier \in Posts : earlier < s => req[earlier].pc # "idle"
    /\ LET r == isRateLimited(rateLimitStore, rateLimitKey("ip1", b.endpoint), now)
       IN /\ rateLimitStore' = r.store
          /\ req' = [req EXCEPT ![s] =
                        [(IF r.limited THEN Finish(@, 429) ELSE [@ EXCEPT !.pc = "body"])
                            EXCEPT !.endpoint = b.endpoint, !.body = b,
                                   !.limited = r.limited, !.counted = TRUE,
                                   !.inflight = PostsInFlight, !.prior = PostsFinished]]
    /\ UNCHANGED <<variant, now, ticks, verdicts, winStart, lastCheck, file, writeQueue,
                   rejected, duplicateStore, outbound, faults, hist, query>>

\* RATE_LIMIT_MAX_REQUESTS requests of one key whose bodies are malformed JSON
\* arrive back to back and are answered (400 or 429): all they leave behind is
\* their count in the limiter.
RECURSIVE RateChecks(_, _, _, _)
RateChecks(store, key, t, n) ==
    IF n = 0 THEN store
    ELSE RateChecks(isRateLimited(store, key, t).store, key, t, n - 1)

Burst(e) ==
    /\ hist.bursts < MaxBursts
    /\ rateLimitStore' =
          RateChecks(rateLimitStore, rateLimitKey("ip1", e), now, RATE_LIMIT_MAX_REQUESTS)
    /\ hist' = [hist EXCEPT !.bursts = @ + 1]
    /\ UNCHANGED <<variant, now, ticks, verdicts, winStart, lastCheck, req, file,
                   writeQueue, rejected, duplicateStore, outbound, faults, query>>

TickSteps == {1, DUPLICATE_WINDOW_MS}

Tick(d) ==
    /\ ticks < MaxTicks
    /\ now' = now + d
    /\ ticks' = ticks + 1
    /\ UNCHANGED <<variant, rateLimitStore, verdicts, winStart, lastCheck, req, file,
                   writeQueue, rejected, duplicateStore, outbound, faults, hist, query>>

-----------------------------------------------------------------------------
\* The JSON-file server: handleApi, updateData, readData, ensureDataFile

\* Mutate with a slip: the record is put in front (unshift for push)
MutateInFront(data, record, t) ==
    IF record.endpoint = "consultation"
    THEN IF isDuplicateConsultation(data.consultations, record, t)
         THEN [duplicated |-> TRUE, next |-> data]
         ELSE [duplicated |-> FALSE,
               next |-> [data EXCEPT !.consultations = <<record>> \o @]]
    ELSE IF isDuplicatePhoneLead(data.phoneLeads, record, t)
         THEN [duplicated |-> TRUE, next |-> data]
         ELSE [duplicated |-> FALSE,
               next |-> [data EXCEPT !.phoneLeads = <<record>> \o @]]

\* The mutator of a submission: the snapshot to write and whether it is a duplicate
Mutate(data, record, t) ==
    IF record.endpoint = "consultation"
    THEN IF isDuplicateConsultation(data.consultations, record, t)
         THEN [duplicated |-> TRUE, next |-> data]
         ELSE [duplicated |-> FALSE,
               next |-> [data EXCEPT !.consultations = Append(@, record)]]
    ELSE IF isDuplicatePhoneLead(data.phoneLeads, record, t)
         THEN [duplicated |-> TRUE, next |-> data]
         ELSE [duplicated |-> FALSE,
               next |-> [data EXCEPT !.phoneLeads = Append(@, record)]]

\* POST handler after the limiter: read and validate the body, build the
\* record, call updateData (which chains the task on writeQueue)
FileBody(s) ==
    /\ variant = "file"
    /\ s \in Posts
    /\ req[s].pc = "body"
    /\ LET b == req[s].body
           n == Normalized(b)
       IN IF b.json # "ok" \/ ~IsValidSubmission(b.endpoint, n)
          THEN /\ req' = [req EXCEPT ![s] = Finish(@, 400)]
               /\ UNCHANGED writeQueue
          ELSE /\ req' = [req EXCEPT ![s] =
                             [@ EXCEPT !.pc = "queued",
                                       !.record = NewRecord(s, b.endpoint, n, now),
                                       !.at = now]]
               /\ writeQueue' = Append(writeQueue, s)
    /\ UNCHANGED <<variant, now, ticks, rateLimitStore, verdicts, winStart, lastCheck,
                   file, rejected, duplicateStore, outbound, faults, hist, query>>

\* TaskSkipped with a slip: the rejection is swallowed and the handler's await
\* never settles
TaskSkippedUnanswered(s) ==
    /\ variant = "file"
    /\ writeQueue # <<>> /\ s = Head(writeQueue)
    /\ req[s].pc = "queued"
    /\ rejected
    /\ req' = [req EXCEPT ![s].pc = "waiting"]
    /\ writeQueue' = Tail(writeQueue)
    /\ UNCHANGED <<variant, now, ticks, rateLimitStore, verdicts, winStart, lastCheck,
                   file, rejected, duplicateStore, outbound, faults, hist, query>>

\* A task chained behind a rejected promise never runs: .then(fn) passes the
\* rejection on, and the handler's await throws
TaskSkipped(s) ==
    /\ variant = "file"
    /\ writeQueue # <<>> /\ s = Head(writeQueue)
    /\ req[s].pc = "queued"
    /\ rejected
    /\ req' = [req EXCEPT ![s] = Finish(@, 500)]
    /\ writeQueue' = Tail(writeQueue)
    /\ UNCHANGED <<variant, now, ticks, rateLimitStore, verdicts, winStart, lastCheck,
                   file, rejected, duplicateStore, outbound, faults, hist, query>>

\* The task at the head of the chain starts: readData, ensureDataFile, fs.access
TaskStart(s) ==
    /\ variant = "file"
    /\ writeQueue # <<>> /\ s = Head(writeQueue)
    /\ req[s].pc = "queued"
    /\ ~rejected
    /\ req' = [req EXCEPT ![s] = [@ EXCEPT !.ran = TRUE,
                                    !.pc = IF file = Absent THEN "ensure" ELSE "read"]]
    /\ UNCHANGED <<variant, now, ticks, rateLimitStore, verdicts, winStart, lastCheck,
                   file, writeQueue, rejected, duplicateStore, outbound, faults, hist, query>>

\* GET /api/leads arrives; the file server calls readData, ensureDataFile, fs.access
GetArrive(s) ==
    /\ s \in Gets
    /\ req[s].pc = "idle"
    /\ \A earlier \in Gets : earlier < s => req[earlier].pc # "idle"
    /\ req' = [req EXCEPT ![s] =
                  [(IF variant = "sync" THEN Finish(@, 410)
                    ELSE [@ EXCEPT !.pc = IF file = Absent THEN "ensure" ELSE "read"])
                      EXCEPT !.endpoint = "leads"]]
    /\ UNCHANGED <<variant, now, ticks, rateLimitStore, verdicts, winStart, lastCheck,
                   file, writeQueue, rejected, duplicateStore, outbound, faults, hist, query>>

\* ensureDataFile found no file: fs.writeFile(initialData) opens (creates, truncates)
EnsureOpen(s) ==
    /\ req[s].pc = "ensure"
    /\ file' = <<>>
    /\ req' = [req EXCEPT ![s].pc = "ensureWrite"]
    /\ UNCHANGED <<variant, now, ticks, rateLimitStore, verdicts, winStart, lastCheck,
                   writeQueue, rejected, duplicateStore, outbound, faults, hist, query>>

\* ... and writes the text
EnsureWrite(s) ==
    /\ req[s].pc = "ensureWrite"
    /\ file' = JSONStringify(initialData)
    /\ req' = [req EXCEPT ![s].pc = "read"]
    /\ UNCHANGED <<variant, now, ticks, rateLimitStore, verdicts, winStart, lastCheck,
                   writeQueue, rejected, duplicateStore, outbound, faults, hist, query>>

\* A task settles with a rejection: the chain keeps it
TaskThrows(s) ==
    /\ writeQueue' = Tail(writeQueue)
    /\ rejected' = TRUE

\* The task's readData returns and the mutator runs; JSON.parse throws on a
\* text that is not whole
TaskRead(s) ==
    /\ s \in Posts
    /\ req[s].pc = "read"
    /\ IF ~Parses(file)
       THEN /\ req' = [req EXCEPT ![s] = [Finish(@, 500) EXCEPT !.readText = file]]
            /\ TaskThrows(s)
       ELSE /\ LET m == Mutate(JSONParse(file), req[s].record, req[s].at)
               IN req' = [req EXCEPT ![s] =
                             [@ EXCEPT !.pc = "open", !.duplicated = m.duplicated,
                                       !.next = JSONStringify(m.next),
                                       !.readText = file,
                                       !.stale = /\ hist.lastWritten # <<>>
                                                 /\ file # hist.lastWritten]]
            /\ UNCHANGED <<writeQueue, rejected>>
    /\ UNCHANGED <<variant, now, ticks, rateLimitStore, verdicts, winStart, lastCheck,
                   file, duplicateStore, outbound, faults, hist, query>>

\* The GET handler's readData returns: 200 with the snapshot; the server's
\* catch answers 500 when JSON.parse throws
GetRead(s) ==
    /\ s \in Gets
    /\ req[s].pc = "read"
    /\ req' = [req EXCEPT ![s] =
                  [Finish(@, IF Parses(file) THEN 200 ELSE 500) EXCEPT !.readText = file]]
    /\ UNCHANGED <<variant, now, ticks, rateLimitStore, verdicts, winStart, lastCheck,
                   file, writeQueue, rejected, duplicateStore, outbound, faults, hist, query>>

\* fs.writeFile(DATA_FILE, next) opens the file, truncating it
WriteOpen(s) ==
    /\ req[s].pc = "open"
    /\ file' = <<>>
    /\ req' = [req EXCEPT ![s] = [@ EXCEPT !.pc = "write", !.wrote = TRUE]]
    /\ UNCHANGED <<variant, now, ticks, rateLimitStore, verdicts, winStart, lastCheck,
                   writeQueue, rejected, duplicateStore, outbound, faults, hist, query>>

\* ... and writes the text: the task resolves, the handler answers
WriteFinish(s) ==
    /\ req[s].pc = "write"
    /\ file' = req[s].next
    /\ req' = [req EXCEPT ![s] =
                  [Finish(@, IF @.duplicated THEN 409 ELSE 201)
                      EXCEPT !.acceptedAt = DateParse(req[s].record.createdAt)]]
    /\ writeQueue' = Tail(writeQueue)
    /\ hist' = [hist EXCEPT !.lastWritten = req[s].next]
    /\ UNCHANGED <<variant, now, ticks, rateLimitStore, verdicts, winStart, lastCheck,
                   rejected, duplicateStore, outbound, faults, query>>

\* fs.writeFile fails: before it opened the file (which keeps its content) or
\* after (which leaves it cut short); the handler's catch answers 500
WriteFails(s) ==
    /\ req[s].pc \in {"open", "write"}
    /\ faults < MaxFaults
    /\ faults' = faults + 1
    /\ req' = [req EXCEPT ![s] =
                  [Finish(@, 500) EXCEPT !.failedWrite = TRUE, !.wrote = TRUE,
                                         !.intact = (file = req[s].readText)]]
    /\ TaskThrows(s)
    /\ UNCHANGED <<variant, now, ticks, rateLimitStore, verdicts, winStart, lastCheck,
                   file, duplicateStore, outbound, hist, query>>

-----------------------------------------------------------------------------
\* backend/server.js: handleConsultationSubmit, handlePhoneLeadSubmit

duplicateKeyOf(endpoint, n) ==
    IF endpoint = "consultation"
    THEN consultationDuplicateKey(n.phone, n.source, n.products)
    ELSE phoneDuplicateKey(n.phone, n.source)

\* SyncBody with a slip: the key is marked at the check, before the outbound
\* call
SyncBodyMarking(s) ==
    /\ variant = "sync"
    /\ s \in Posts
    /\ req[s].pc = "body"
    /\ LET b == req[s].body
           n == Normalized(b)
           h == hasDuplicateSubmission(duplicateStore, duplicateKeyOf(b.endpoint, n), now)
       IN IF b.json # "ok" \/ ~IsValidSubmission(b.endpoint, n)
          THEN /\ req' = [req EXCEPT ![s] = Finish(@, 400)]
               /\ UNCHANGED duplicateStore
          ELSE /\ duplicateStore' =
                     IF h.dup THEN h.store
                     ELSE markDuplicateSubmission(h.store, duplicateKeyOf(b.endpoint, n), now)
               /\ req' = [req EXCEPT ![s] =
                             [(IF h.dup THEN Finish(@, 409) ELSE [@ EXCEPT !.pc = "sync"])
                                 EXCEPT !.record = NewRecord(s, b.endpoint, n, now),
                                        !.at = now, !.duplicated = h.dup]]
    /\ UNCHANGED <<variant, now, ticks, rateLimitStore, verdicts, winStart, lastCheck,
                   file, writeQueue, rejected, outbound, faults, hist, query>>

\* after the limiter: read and validate the body, check the duplicate table,
\* build the record and start the outbound call
SyncBody(s) ==
    /\ variant = "sync"
    /\ s \in Posts
    /\ req[s].pc = "body"
    /\ LET b == req[s].body
           n == Normalized(b)
           h == hasDuplicateSubmission(duplicateStore, duplicateKeyOf(b.endpoint, n), now)
       IN IF b.json # "ok" \/ ~IsValidSubmission(b.endpoint, n)
          THEN /\ req' = [req EXCEPT ![s] = Finish(@, 400)]
               /\ UNCHANGED duplicateStore
          ELSE /\ duplicateStore' = h.store
               /\ req' = [req EXCEPT ![s] =
                             [(IF h.dup THEN Finish(@, 409) ELSE [@ EXCEPT !.pc = "sync"])
                                 EXCEPT !.record = NewRecord(s, b.endpoint, n, now),
                                        !.at = now, !.duplicated = h.dup]]
    /\ UNCHANGED <<variant, now, ticks, rateLimitStore, verdicts, winStart, lastCheck,
                   file, writeQueue, rejected, outbound, faults, hist, query>>

\* the outbound record is created: mark the key, answer 201
SyncDone(s) ==
    /\ req[s].pc = "sync"
    /\ outbound' = Append(outbound, req[s].record)
    /\ duplicateStore' =
          markDuplicateSubmission(duplicateStore,
              duplicateKeyOf(req[s].endpoint, req[s].record), now)
    /\ req' = [req EXCEPT ![s] = [Finish(@, 201) EXCEPT !.acceptedAt = now]]
    /\ UNCHANGED <<variant, now, ticks, rateLimitStore, verdicts, winStart, lastCheck,
                   file, writeQueue, rejected, faults, hist, query>>

\* SyncFails with a slip: the key is marked before the outbound call is awaited
SyncFailsMarked(s) ==
    /\ req[s].pc = "sync"
    /\ faults < MaxFaults
    /\ faults' = faults + 1
    /\ req' = [req EXCEPT ![s] = Finish(@, 502)]
    /\ duplicateStore' =
          markDuplicateSubmission(duplicateStore,
              duplicateKeyOf(req[s].endpoint, req[s].record), now)
    /\ UNCHANGED <<variant, now, ticks, rateLimitStore, verdicts, winStart, lastCheck,
                   file, writeQueue, rejected, outbound, hist, query>>

\* the outbound call fails: the handler's catch answers 502
SyncFails(s) ==
    /\ req[s].pc = "sync"
    /\ faults < MaxFaults
    /\ faults' = faults + 1
    /\ req' = [req EXCEPT ![s] = Finish(@, 502)]
    /\ UNCHANGED <<variant, now, ticks, rateLimitStore, verdicts, winStart, lastCheck,
                   file, writeQueue, rejected, duplicateStore, outbound, hist, query>>

-----------------------------------------------------------------------------
\* The two servers under requests, clock advances and faults

Init ==
    /\ InitLimiter
    /\ variant \in {"file", "sync"}
    /\ req = [s \in Slots |-> IdleReq]
    /\ file = Absent
    /\ writeQueue = <<>>
    /\ rejected = FALSE
    /\ duplicateStore = <<>>
    /\ outbound = <<>>
    /\ faults = 0
    /\ hist = [bursts |-> 0, lastWritten |-> <<>>]
    /\ query = <<>>

Next ==
    \/ \E s \in Posts, b \in Bodies : Arrive(s, b)
    \/ \E e \in {"phone"} : Burst(e)
    \/ \E d \in TickSteps : Tick(d)
    \/ \E s \in Posts : FileBody(s)
    \/ \E s \in Posts : TaskSkipped(s)
    \/ \E s \in Posts : TaskStart(s)
    \/ \E s \in Gets : GetArrive(s)
    \/ \E s \in Slots : EnsureOpen(s)
    \/ \E s \in Slots : EnsureWrite(s)
    \/ \E s \in Posts : TaskRead(s)
    \/ \E s \in Gets : GetRead(s)
    \/ \E s \in Posts : WriteOpen(s)
    \/ \E s \in Posts : WriteFinish(s)
    \/ \E s \in Posts : WriteFails(s)
    \/ \E s \in Posts : SyncBody(s)
    \/ \E s \in Posts : SyncDone(s)
    \/ \E s \in Posts : SyncFails(s)

Spec == Init /\ [][Next]_vars

\* The file server alone under fair scheduling: submissions arrive at any
\* moment, a write may fail, every file-system call returns and every
\* continuation that can run does run
InitFair == Init /\ variant = "file"

\* the submissions of the phone form and the body that does not parse
FairBodies == {b \in Bodies : b.endpoint = "phone" \/ b.json # "ok"}

Continue ==
    \/ \E s \in Posts : FileBody(s)
    \/ \E s \in Posts : TaskSkipped(s)
    \/ \E s \in Posts : TaskStart(s)
    \/ \E s \in Posts : EnsureOpen(s)
    \/ \E s \in Posts : EnsureWrite(s)
    \/ \E s \in Posts : TaskRead(s)
    \/ \E s \in Posts : WriteOpen(s)
    \/ \E s \in Posts : WriteFinish(s)

NextFair ==
    \/ \E s \in Posts, b \in FairBodies : Arrive(s, b)
    \/ \E s \in Posts : WriteFails(s)
    \/ Continue

SpecFair == InitFair /\ [][NextFair]_vars /\ WF_vars(Continue)

-----------------------------------------------------------------------------
\* The two servers under sequential requests: a request arrives only when
\* every earlier one has been answered, and the clock advances between them

ArriveAlone(s, b) ==
    /\ InFlight = {}
    /\ Arrive(s, b)

GetArriveAlone(s) ==
    /\ InFlight = {}
    /\ GetArrive(s)

SeqTick(d) ==
    /\ InFlight = {}
    /\ ticks < MaxSeqTicks
    /\ now' = now + d
    /\ ticks' = ticks + 1
    /\ UNCHANGED <<variant, rateLimitStore, verdicts, winStart, lastCheck, req, file,
                   writeQueue, rejected, duplicateStore, outbound, faults, hist, query>>

NextSeq ==
    \/ \E s \in Posts, b \in Bodies : ArriveAlone(s, b)
    \/ \E d \in TickSteps : SeqTick(d)
    \/ \E s \in Posts : FileBody(s)
    \/ \E s \in Posts : TaskSkipped(s)
    \/ \E s \in Posts : TaskStart(s)
    \/ \E s \in Gets : GetArriveAlone(s)
    \/ \E s \in Slots : EnsureOpen(s)
    \/ \E s \in Slots : EnsureWrite(s)
    \/ \E s \in Posts : TaskRead(s)
    \/ \E s \in Gets : GetRead(s)
    \/ \E s \in Posts : WriteOpen(s)
    \/ \E s \in Posts : WriteFinish(s)
    \/ \E s \in Posts : WriteFails(s)
    \/ \E s \in Posts : SyncBody(s)
    \/ \E s \in Posts : SyncDone(s)
    \/ \E s \in Posts : SyncFails(s)

SpecSeq == Init /\ [][NextSeq]_vars

-----------------------------------------------------------------------------
\* The two servers under sequential submissions with bodies that exercise the
\* normalizer: texts longer than their caps, blank and missing fields, values
\* that are not strings or lists, and texts that contain '|' and ','

Rep(c, n) == [i \in 1..n |-> c]

Name2 == Str(<<"A", "l">>)

PageA == Str(<<"/", "a">>)

ProductsXY == Arr(<<Str(<<"x">>), Str(<<"y">>)>>)

NormBodies ==
    { \* every text padded and longer than its cap
      ConsultationBody(Str(<<" ">> \o Rep("A", NAME_MAX_LEN + MaxExcess)),
                       Str(<<" ">> \o PhoneA),
                       Str(Rep("a", SOURCE_MAX_LEN + MaxExcess) \o <<" ">>),
                       Arr(<<Str(Rep("x", PRODUCT_MAX_LEN + MaxExcess)), Str(<<"y">>),
                             Str(<<" ">> \o Rep("x", PRODUCT_MAX_LEN))>>)),
      \* a blank name, a name that is no string
      ConsultationBody(Str(<<" ", " ">>), Str(PhoneA), PageA, ProductsXY),
      ConsultationBody(Num, Str(PhoneA), PageA, ProductsXY),
      \* products that normalize to nothing, products that are no list
      ConsultationBody(Name2, Str(PhoneA), PageA, Arr(<<Str(<<" ">>), Num>>)),
      ConsultationBody(Name2, Str(PhoneA), PageA, Undefined),
      \* twelve digits; eleven digits and then text past the cap of 20
      ConsultationBody(Name2, Str(PhoneA \o <<"0">>), PageA, ProductsXY),
      PhoneBody(Str(PhoneA \o Rep("x", PHONE_MAX_LEN - 11 + MaxExcess)), PageA),
      [NoBody EXCEPT !.json = "invalid", !.endpoint = "consultation"],
      \* sourcePage and products that spell the same text when joined
      ConsultationBody(Name2, Str(PhoneA), PageA, ProductsXY),
      ConsultationBody(Name2, Str(PhoneA), PageA, Arr(<<Str(<<"x", ",", "y">>)>>)),
      ConsultationBody(Name2, Str(PhoneA), Str(<<"/", "a", "|", "x">>), Arr(<<Str(<<"y">>)>>)),
      ConsultationBody(Name2, Str(PhoneA), PageA, Arr(<<Str(<<"x", "|", "y">>)>>)),
      \* phone leads: no source, a blank source, a phone that does not start with 1
      PhoneBody(Str(PhoneA), Undefined),
      PhoneBody(Str(PhoneA), Str(<<" ">>)),
      PhoneBody(Str(PhoneNoLead), PageA) }

-----------------------------------------------------------------------------
\* The query engine of the JSON-file server: parseQueryOptions, the filters,
\* sortByCreatedAtDesc, paginate, toTopList

DEFAULT_PAGE_SIZE == 20

MAX_PAGE_SIZE == 100

MAX_PAGE == 1000000

\* a URL parameter is null or a string; a string that spells an ISO time
\* carries the record of its fields
Null == [t |-> "null", v |-> <<>>, iso |-> toISOString(0)]

ParamText(v) == [t |-> "str", v |-> v, iso |-> toISOString(0)]

IsoText(iso) == [t |-> "iso", v |-> <<>>, iso |-> iso]

\* value === null || value === undefined || value === ""
IsBlankParam(value) == value.t = "null" \/ (value.t = "str" /\ value.v = <<>>)

DigitChars == <<"0", "1", "2", "3", "4", "5", "6", "7", "8", "9">>

DigitValue(c) == (CHOOSE i \in 1..Len(DigitChars) : DigitChars[i] = c) - 1

\* Number(text) for a text of digits
RECURSIVE ToNumber(_)
ToNumber(text) ==
    IF text = <<>> THEN 0
    ELSE ToNumber(SubSeq(text, 1, Len(text) - 1)) * 10 + DigitValue(text[Len(text)])

\* /^\d+$/.test(String(value))
AllDigits(text) == text # <<>> /\ \A i \in 1..Len(text) : text[i] \in Digits

parsePositiveIntAnyRange(value, fallback, min, max) ==
    IF IsBlankParam(value) THEN [error |-> FALSE, value |-> fallback]
    ELSE IF ~AllDigits(value.v) THEN [error |-> TRUE, value |-> 0]
    ELSE [error |-> FALSE, value |-> ToNumber(value.v)]

parsePositiveInt(value, fallback, min, max) ==
    IF IsBlankParam(value) THEN [error |-> FALSE, value |-> fallback]
    ELSE IF ~AllDigits(value.v) THEN [error |-> TRUE, value |-> 0]
    ELSE LET parsed == ToNumber(value.v)
         IN IF parsed < min \/ parsed > max
            THEN [error |-> TRUE, value |-> 0]
            ELSE [error |-> FALSE, value |-> parsed]

\* a time in milliseconds, or null
NullTime == [null |-> TRUE, ms |-> 0]

Time(ms) == [null |-> FALSE, ms |-> ms]

\* normalizeText(searchParams.get(name) || "", 40) of a date parameter: trim and
\* the cut to 40 leave the 24 characters of an ISO time as they are
dateParamText(value) ==
    IF value.t = "iso" THEN value
    ELSE ParamText(normalizeText(IF value.t = "null" THEN Str(<<>>) ELSE value, 40))

\* Date.parse of a parameter text: the texts that are no ISO time do not parse
DateParseText(text) == IF text.t = "iso" THEN DateParse(text.iso) ELSE NaN

parseDateQuery(value) ==
    IF value.t = "str" /\ value.v = <<>> THEN [error |-> FALSE, value |-> NullTime]
    ELSE LET ts == DateParseText(value)
         IN IF ts = NaN THEN [error |-> TRUE, value |-> NullTime]
            ELSE [error |-> FALSE, value |-> Time(ts)]

NoOptions == [error |-> TRUE, page |-> 0, pageSize |-> 0,
              startAtMs |-> NullTime, endAtMs |-> NullTime]

parseQueryOptions(searchParams) ==
    LET pageResult == parsePositiveInt(searchParams.page, 1, 1, MAX_PAGE)
        sizeResult == parsePositiveInt(searchParams.pageSize, DEFAULT_PAGE_SIZE,
                                       1, MAX_PAGE_SIZE)
        startAtResult == parseDateQuery(dateParamText(searchParams.startAt))
        endAtResult == parseDateQuery(dateParamText(searchParams.endAt))
    IN IF pageResult.error THEN NoOptions
       ELSE IF sizeResult.error THEN NoOptions
       ELSE IF startAtResult.error THEN NoOptions
       ELSE IF endAtResult.error THEN NoOptions
       ELSE IF /\ ~startAtResult.value.null
               /\ ~endAtResult.value.null
               /\ startAtResult.value.ms > endAtResult.value.ms
            THEN NoOptions
       ELSE [error |-> FALSE, page |-> pageResult.value, pageSize |-> sizeResult.value,
             startAtMs |-> startAtResult.value, endAtMs |-> endAtResult.value]

\* toLowerCase over the letters the inputs use
LowerOf(c) ==
    IF c = "A" THEN "a" ELSE IF c = "B" THEN "b" ELSE IF c = "L" THEN "l" ELSE c

toLowerCase(text) == [i \in 1..Len(text) |-> LowerOf(text[i])]

\* String.prototype.includes
Includes(text, part) ==
    \E i \in 0..(Len(text) - Len(part)) : SubSeq(text, i + 1, i + Len(part)) = part

includesText(haystack, keyword) == Includes(toLowerCase(haystack), toLowerCase(keyword))

\* a filter parameter: normalizeText(searchParams.get(name) || "", maxLength)
filterText(value, maxLength) ==
    normalizeText(IF value.t = "null" THEN Str(<<>>) ELSE value, maxLength)

\* inTimeRange with a slip: the bounds are exclusive
inTimeRangeExclusive(createdAt, startAtMs, endAtMs) ==
    IF startAtMs.null /\ endAtMs.null THEN TRUE
    ELSE LET ts == DateParse(createdAt)
         IN IF ts = NaN THEN FALSE
            ELSE IF ~startAtMs.null /\ ts <= startAtMs.ms THEN FALSE
            ELSE IF ~endAtMs.null /\ ts >= endAtMs.ms THEN FALSE
            ELSE TRUE

\* inTimeRange with a slip: a createdAt that does not parse passes the bounds
inTimeRangeUnparsedPass(createdAt, startAtMs, endAtMs) ==
    IF startAtMs.null /\ endAtMs.null THEN TRUE
    ELSE LET ts == DateParse(createdAt)
         IN IF ts = NaN THEN TRUE
            ELSE IF ~startAtMs.null /\ ts < startAtMs.ms THEN FALSE
            ELSE IF ~endAtMs.null /\ ts > endAtMs.ms THEN FALSE
            ELSE TRUE

inTimeRange(createdAt, startAtMs, endAtMs) ==
    IF startAtMs.null /\ endAtMs.null THEN TRUE
    ELSE LET ts == DateParse(createdAt)
         IN IF ts = NaN THEN FALSE
            ELSE IF ~startAtMs.null /\ ts < startAtMs.ms THEN FALSE
            ELSE IF ~endAtMs.null /\ ts > endAtMs.ms THEN FALSE
            ELSE TRUE

\* the filter callback of GET /api/admin/leads/consultations
consultationMatches(record, searchParams, options) ==
    LET phone == filterText(searchParams.phone, 20)
        name == filterText(searchParams.name, 40)
        sourcePage == filterText(searchParams.sourcePage, 40)
        product == filterText(searchParams.product, 30)
    IN /\ ~(phone # <<>> /\ ~includesText(record.phone, phone))
       /\ ~(name # <<>> /\ ~includesText(record.name, name))
       /\ ~(sourcePage # <<>> /\ ~includesText(record.source, sourcePage))
       /\ ~(product # <<>> /\ ~(\E i \in 1..Len(record.products) : record.products[i] = product))
       /\ inTimeRange(record.createdAt, options.startAtMs, options.endAtMs)

\* the filter callback of GET /api/admin/leads/phones
phoneLeadMatches(record, searchParams, options) ==
    LET phone == filterText(searchParams.phone, 20)
        source == filterText(searchParams.source, 40)
    IN /\ ~(phone # <<>> /\ ~includesText(record.phone, phone))
       /\ ~(source # <<>> /\ ~includesText(record.source, source))
       /\ inTimeRange(record.createdAt, options.startAtMs, options.endAtMs)

\* Array.prototype.filter
RECURSIVE FilterSeq(_, _, _, _)
FilterSeq(records, kind, searchParams, options) ==
    IF records = <<>> THEN <<>>
    ELSE LET r == Head(records)
             keep == IF kind = "consultations"
                     THEN consultationMatches(r, searchParams, options)
                     ELSE phoneLeadMatches(r, searchParams, options)
         IN (IF keep THEN <<r>> ELSE <<>>)
                \o FilterSeq(Tail(records), kind, searchParams, options)

\* SafeTime with a slip: a time that does not parse counts as the latest
SafeTimeLatest(createdAt) ==
    LET ts == DateParse(createdAt) IN IF ts = NaN THEN 2147483647 ELSE ts

\* Number.isFinite(time) ? time : 0
SafeTime(createdAt) ==
    LET ts == DateParse(createdAt) IN IF ts = NaN THEN 0 ELSE ts

\* the comparator's order: a goes before b when safeB - safeA < 0
RECURSIVE InsertByTimeDesc(_, _)
InsertByTimeDesc(sorted, x) ==
    IF sorted = <<>> THEN <<x>>
    ELSE IF SafeTime(Head(sorted).createdAt) - SafeTime(x.createdAt) < 0
         THEN <<x>> \o sorted
         ELSE <<Head(sorted)>> \o InsertByTimeDesc(Tail(sorted), x)

\* items.sort(comparator): Array.prototype.sort is stable
RECURSIVE sortByCreatedAtDesc(_)
sortByCreatedAtDesc(items) ==
    IF items = <<>> THEN <<>>
    ELSE InsertByTimeDesc(sortByCreatedAtDesc(SubSeq(items, 1, Len(items) - 1)),
                          items[Len(items)])

\* Math.ceil(total / pageSize)
Ceil(total, pageSize) == (total + pageSize - 1) \div pageSize

Min(a, b) == IF a < b THEN a ELSE b

\* items.slice(start, end)
SliceSeq(items, start, end) == SubSeq(items, start + 1, Min(end, Len(items)))

\* paginate with a slip: the offset is counted from page 0
paginateShifted(items, page, pageSize) ==
    LET total == Len(items)
        totalPages == IF total = 0 THEN 0 ELSE Ceil(total, pageSize)
        safePage == IF totalPages = 0 THEN 1 ELSE Min(page, totalPages)
        offset == safePage * pageSize
    IN [page |-> safePage, pageSize |-> pageSize, total |-> total,
        totalPages |-> totalPages,
        hasPrev |-> safePage > 1 /\ totalPages > 0,
        hasNext |-> safePage < totalPages,
        items |-> SliceSeq(items, offset, offset + pageSize)]

\* paginate with a slip: hasNext looks at the page that was asked for
paginateAskedNext(items, page, pageSize) ==
    LET total == Len(items)
        totalPages == IF total = 0 THEN 0 ELSE Ceil(total, pageSize)
        safePage == IF totalPages = 0 THEN 1 ELSE Min(page, totalPages)
        offset == (safePage - 1) * pageSize
    IN [page |-> safePage, pageSize |-> pageSize, total |-> total,
        totalPages |-> totalPages,
        hasPrev |-> page > 1,
        hasNext |-> page <= totalPages,
        items |-> SliceSeq(items, offset, offset + pageSize)]

\* paginate with a slip: a page past the last one is not clamped
paginateUnclamped(items, page, pageSize) ==
    LET total == Len(items)
        totalPages == IF total = 0 THEN 0 ELSE Ceil(total, pageSize)
        offset == (page - 1) * pageSize
    IN [page |-> page, pageSize |-> pageSize, total |-> total,
        totalPages |-> totalPages,
        hasPrev |-> page > 1 /\ totalPages > 0,
        hasNext |-> page < totalPages,
        items |-> SliceSeq(items, offset, offset + pageSize)]

paginate(items, page, pageSize) ==
    LET total == Len(items)
        totalPages == IF total = 0 THEN 0 ELSE Ceil(total, pageSize)
        safePage == IF totalPages = 0 THEN 1 ELSE Min(page, totalPages)
        offset == (safePage - 1) * pageSize
    IN [page |-> safePage, pageSize |-> pageSize, total |-> total,
        totalPages |-> totalPages,
        hasPrev |-> safePage > 1 /\ totalPages > 0,
        hasNext |-> safePage < totalPages,
        items |-> SliceSeq(items, offset, offset + pageSize)]

-----------------------------------------------------------------------------
\* The admin queries of the JSON-file server (backend/server.js answers 410)

NoParams == [page |-> Null, pageSize |-> Null, startAt |-> Null, endAt |-> Null,
             phone |-> Null, name |-> Null, sourcePage |-> Null, source |-> Null,
             product |-> Null]

NoPage == [page |-> 0, pageSize |-> 0, total |-> 0, totalPages |-> 0,
           hasPrev |-> FALSE, hasNext |-> FALSE, items |-> <<>>]

NoSummary == [totals |-> [consultations |-> 0, phoneLeads |-> 0],
              today |-> [consultations |-> 0, phoneLeads |-> 0],
              consultationBySourcePage |-> <<>>, phoneLeadBySource |-> <<>>,
              consultationByProduct |-> <<>>]

\* GET /api/admin/leads/consultations or /phones arrives: parseQueryOptions,
\* 400 on an error, else readData
QueryArrive(kind, searchParams) ==
    /\ query = <<>>
    /\ LET options == parseQueryOptions(searchParams)
       IN query' = [kind |-> kind, params |-> searchParams, options |-> options,
                    pc |-> IF variant = "sync" \/ options.error THEN "done" ELSE "read",
                    status |-> IF variant = "sync" THEN 410
                               ELSE IF options.error THEN 400 ELSE 0,
                    page |-> NoPage, summary |-> NoSummary]
    /\ UNCHANGED <<variant, now, ticks, rateLimitStore, verdicts, winStart, lastCheck,
                   req, file, writeQueue, rejected, duplicateStore, outbound, faults,
                   hist>>

\* readData returns (the data file exists): filter, sort, paginate, answer 200
QueryRead ==
    /\ query # <<>>
    /\ query.pc = "read"
    /\ query.kind \in {"consultations", "phoneLeads"}
    /\ file # Absent
    /\ IF ~Parses(file)
       THEN query' = [query EXCEPT !.pc = "done", !.status = 500]
       ELSE LET data == JSONParse(file)
                filtered == sortByCreatedAtDesc(
                                FilterSeq(data[query.kind], query.kind, query.params,
                                          query.options))
            IN query' = [query EXCEPT !.pc = "done", !.status = 200,
                            !.page = paginate(filtered, query.options.page,
                                              query.options.pageSize)]
    /\ UNCHANGED <<variant, now, ticks, rateLimitStore, verdicts, winStart, lastCheck,
                   req, file, writeQueue, rejected, duplicateStore, outbound, faults,
                   hist>>

\* map.set(key, (map.get(key) || 0) + 1): the entries in insertion order
Increment(entries, key) ==
    IF \E i \in 1..Len(entries) : entries[i].key = key
    THEN [i \in 1..Len(entries) |->
             IF entries[i].key = key
             THEN [entries[i] EXCEPT !.count = @ + 1]
             ELSE entries[i]]
    ELSE Append(entries, [key |-> key, count |-> 1])

RECURSIVE CountKeys(_)
CountKeys(keys) ==
    IF keys = <<>> THEN <<>>
    ELSE Increment(CountKeys(SubSeq(keys, 1, Len(keys) - 1)), keys[Len(keys)])

\* record.sourcePage || "unknown"
OrUnknownText(text) == IF text = <<>> THEN OrUnknown(Undefined).v ELSE text

SourceKeys(records) == [i \in 1..Len(records) |-> OrUnknownText(records[i].source)]

RECURSIVE ProductKeys(_)
ProductKeys(records) ==
    IF records = <<>> THEN <<>>
    ELSE Head(records).products \o ProductKeys(Tail(records))

\* sort((a, b) => b.count - a.count)
RECURSIVE InsertByCountDesc(_, _)
InsertByCountDesc(sorted, x) ==
    IF sorted = <<>> THEN <<x>>
    ELSE IF Head(sorted).count - x.count < 0
         THEN <<x>> \o sorted
         ELSE <<Head(sorted)>> \o InsertByCountDesc(Tail(sorted), x)

RECURSIVE SortByCountDesc(_)
SortByCountDesc(entries) ==
    IF entries = <<>> THEN <<>>
    ELSE InsertByCountDesc(SortByCountDesc(SubSeq(entries, 1, Len(entries) - 1)),
                           entries[Len(entries)])

toTopList(entries) == SortByCountDesc(entries)

\* GET /api/admin/leads/summary arrives and calls readData
SummaryArrive ==
    /\ variant = "file"
    /\ query = <<>>
    /\ query' = [kind |-> "summary", params |-> NoParams,
                 options |-> parseQueryOptions(NoParams), pc |-> "read", status |-> 0,
                 page |-> NoPage, summary |-> NoSummary]
    /\ UNCHANGED <<variant, now, ticks, rateLimitStore, verdicts, winStart, lastCheck,
                   req, file, writeQueue, rejected, duplicateStore, outbound, faults,
                   hist>>

\* readData returns (the data file exists): count, order, answer 200
SummaryRead ==
    /\ query # <<>>
    /\ query.pc = "read"
    /\ query.kind = "summary"
    /\ file # Absent
    /\ IF ~Parses(file)
       THEN query' = [query EXCEPT !.pc = "done", !.status = 500]
       ELSE LET data == JSONParse(file)
            IN query' = [query EXCEPT !.pc = "done", !.status = 200,
                  !.summary =
                     [totals |-> [consultations |-> Len(data.consultations),
                                  phoneLeads |-> Len(data.phoneLeads)],
                      today |-> [consultations |-> countToday(data.consultations, now),
                                 phoneLeads |-> countToday(data.phoneLeads, now)],
                      consultationBySourcePage |->
                          toTopList(CountKeys(SourceKeys(data.consultations))),
                      phoneLeadBySource |->
                          toTopList(CountKeys(SourceKeys(data.phoneLeads))),
                      consultationByProduct |->
                          toTopList(CountKeys(ProductKeys(data.consultations)))]]
    /\ UNCHANGED <<variant, now, ticks, rateLimitStore, verdicts, winStart, lastCheck,
                   req, file, writeQueue, rejected, duplicateStore, outbound, faults,
                   hist>>

-----------------------------------------------------------------------------
\* Sequential submissions that exercise the normalizer, and an admin query
\* whose parameters are malformed

Garbage == ParamText(<<"x">>)

RejectedQueries ==
    { [NoParams EXCEPT !.page = ParamText(<<"0">>)],
      [NoParams EXCEPT !.page = Garbage],
      [NoParams EXCEPT !.pageSize = ParamText(<<"1", "0", "1">>)],
      [NoParams EXCEPT !.pageSize = ParamText(<<"0">>)],
      [NoParams EXCEPT !.startAt = Garbage],
      [NoParams EXCEPT !.endAt = Garbage],
      [NoParams EXCEPT !.startAt = IsoText(toISOString(1)),
                       !.endAt = IsoText(toISOString(0))] }

NextNorm ==
    \/ \E s \in Posts, b \in NormBodies : ArriveAlone(s, b)
    \/ \E s \in Posts : FileBody(s)
    \/ \E s \in Posts : TaskStart(s)
    \/ \E s \in Posts : EnsureOpen(s)
    \/ \E s \in Posts : EnsureWrite(s)
    \/ \E s \in Posts : TaskRead(s)
    \/ \E s \in Posts : WriteOpen(s)
    \/ \E s \in Posts : WriteFinish(s)
    \/ \E s \in Posts : SyncBody(s)
    \/ \E s \in Posts : SyncDone(s)
    \/ \E q \in RejectedQueries : QueryArrive("consultations", q)

SpecNorm == Init /\ [][NextNorm]_vars

-----------------------------------------------------------------------------
\* The admin queries over a data file that holds a snapshot: the file of a
\* running server, or one written by an earlier version or by hand (a
\* createdAt that is no time, a blank sourcePage)

\* records of one collection in a snapshot
MaxRecords == 3

\* createdAt of the records, in milliseconds
QueryTimes == <<1000, 2000, 3000>>

BadTime == [toISOString(0) EXCEPT !.month = 13]

PhoneB == <<"1", "3", "9", "0", "0", "0", "0", "0", "0", "0", "0">>

ConsultationPool ==
    { [id |-> 0, endpoint |-> "consultation", name |-> <<"A", "l">>, phone |-> PhoneA,
       source |-> <<"/", "a">>, products |-> <<(<<"x">>), (<<"y">>)>>,
       createdAt |-> toISOString(QueryTimes[1])],
      [id |-> 0, endpoint |-> "consultation", name |-> <<"B", "o">>, phone |-> PhoneB,
       source |-> <<"/", "b">>, products |-> <<(<<"x">>)>>,
       createdAt |-> toISOString(QueryTimes[2])],
      [id |-> 0, endpoint |-> "consultation", name |-> <<"A", "l">>, phone |-> PhoneA,
       source |-> <<"/", "a">>, products |-> <<(<<"x", "y">>)>>,
       createdAt |-> toISOString(QueryTimes[2])],
      [id |-> 0, endpoint |-> "consultation", name |-> <<"B", "o">>, phone |-> PhoneA,
       source |-> <<>>, products |-> <<(<<"y">>)>>,
       createdAt |-> BadTime] }

PhoneLeadPool ==
    { [id |-> 0, endpoint |-> "phone", name |-> <<>>, phone |-> PhoneA,
       source |-> <<"c", "t", "a">>, products |-> <<>>,
       createdAt |-> toISOString(QueryTimes[1])],
      [id |-> 0, endpoint |-> "phone", name |-> <<>>, phone |-> PhoneB,
       source |-> <<"u", "n", "k", "n", "o", "w", "n">>, products |-> <<>>,
       createdAt |-> toISOString(QueryTimes[3])],
      [id |-> 0, endpoint |-> "phone", name |-> <<>>, phone |-> PhoneA,
       source |-> <<>>, products |-> <<>>,
       createdAt |-> BadTime] }

SeqsUpTo(S, n) == UNION {[1..k -> S] : k \in 0..n}

\* every record of a collection has its own id
WithIds(records) == [i \in 1..Len(records) |-> [records[i] EXCEPT !.id = i]]

Snapshots ==
    {[consultations |-> WithIds(c), phoneLeads |-> <<>>] :
        c \in SeqsUpTo(ConsultationPool, MaxRecords)}
    \cup {[consultations |-> <<>>, phoneLeads |-> WithIds(l)] :
        l \in SeqsUpTo(PhoneLeadPool, MaxRecords)}

TimeParams == {Null} \cup {IsoText(toISOString(QueryTimes[i])) : i \in 1..Len(QueryTimes)}

Queries ==
    RejectedQueries
    \cup {[NoParams EXCEPT !.page = ParamText(<<>>), !.pageSize = ParamText(<<>>)],
          [NoParams EXCEPT !.startAt = ParamText(<<" ">>), !.endAt = ParamText(<<>>)],
          [NoParams EXCEPT !.name = ParamText(<<" ", "A", "L", " ">>)]}
    \cup {[NoParams EXCEPT !.page = pg, !.pageSize = sz] :
            pg \in {Null, ParamText(<<"1">>), ParamText(<<"2">>), ParamText(<<"0", "3">>),
                    ParamText(<<"4">>)},
            sz \in {Null, ParamText(<<"1">>), ParamText(<<"2">>),
                    ParamText(<<"1", "0", "0">>)}}
    \cup {[NoParams EXCEPT !.startAt = from, !.endAt = to] :
            from \in TimeParams, to \in TimeParams}
    \cup {[NoParams EXCEPT !.phone = ph, !.name = nm, !.sourcePage = sp, !.source = sp,
                           !.product = pr] :
            ph \in {Null, ParamText(<<"3", "8">>)},
            nm \in {Null, ParamText(<<"A", "L">>)},
            sp \in {Null, ParamText(<<" ">>), ParamText(<<"/", "A">>)},
            pr \in {Null, ParamText(<<"x">>)}}

InitQuery ==
    /\ InitLimiter
    /\ variant = "file"
    /\ req = [s \in Slots |-> IdleReq]
    /\ file \in {JSONStringify(data) : data \in Snapshots}
    /\ writeQueue = <<>>
    /\ rejected = FALSE
    /\ duplicateStore = <<>>
    /\ outbound = <<>>
    /\ faults = 0
    /\ hist = [bursts |-> 0, lastWritten |-> <<>>]
    /\ query = <<>>

NextQuery ==
    \/ \E kind \in {"consultations", "phoneLeads"}, q \in Queries : QueryArrive(kind, q)
    \/ QueryRead
    \/ SummaryArrive
    \/ SummaryRead

SpecQuery == InitQuery /\ [][NextQuery]_vars

-----------------------------------------------------------------------------
\* The admin queries around a local midnight: records created 1 ms before
\* it, at it and after it, one whose createdAt is no time, and a clock
\* before, at and after those times

\* 1970-01-02T00:00:00.000+08:00
Midnight == MsPerDay - LocalOffsetMs

TodayTimes == <<Midnight - 1, Midnight, Midnight + 1000>>

TodayClocks == {Midnight - 1, Midnight, Midnight + 1000, Midnight + MsPerDay}

TodayConsultations ==
    {[id |-> 0, endpoint |-> "consultation", name |-> <<"A", "l">>, phone |-> PhoneA,
      source |-> <<"/", "a">>, products |-> <<(<<"x">>)>>,
      createdAt |-> toISOString(TodayTimes[i])] : i \in 1..Len(TodayTimes)}
    \cup {[id |-> 0, endpoint |-> "consultation", name |-> <<"B", "o">>, phone |-> PhoneB,
           source |-> <<>>, products |-> <<(<<"y">>)>>, createdAt |-> BadTime]}

TodayPhoneLeads ==
    {[id |-> 0, endpoint |-> "phone", name |-> <<>>, phone |-> PhoneA,
      source |-> <<"c", "t", "a">>, products |-> <<>>,
      createdAt |-> toISOString(TodayTimes[i])] : i \in {1, 3}}
    \cup {[id |-> 0, endpoint |-> "phone", name |-> <<>>, phone |-> PhoneB,
           source |-> <<>>, products |-> <<>>, createdAt |-> BadTime]}

TodaySnapshots ==
    {[consultations |-> WithIds(c), phoneLeads |-> <<>>] :
        c \in SeqsUpTo(TodayConsultations, MaxRecords)}
    \cup {[consultations |-> <<>>, phoneLeads |-> WithIds(l)] :
        l \in SeqsUpTo(TodayPhoneLeads, MaxRecords)}

InitToday ==
    /\ now \in TodayClocks
    /\ ticks = 0
    /\ rateLimitStore = <<>>
    /\ verdicts = [k \in Ips \X Endpoints |-> <<>>]
    /\ winStart = [k \in Ips \X Endpoints |-> 0]
    /\ lastCheck = NoCheck
    /\ variant = "file"
    /\ req = [s \in Slots |-> IdleReq]
    /\ file \in {JSONStringify(data) : data \in TodaySnapshots}
    /\ writeQueue = <<>>
    /\ rejected = FALSE
    /\ duplicateStore = <<>>
    /\ outbound = <<>>
    /\ faults = 0
    /\ hist = [bursts |-> 0, lastWritten |-> <<>>]
    /\ query = <<>>

SpecToday == InitToday /\ [][NextQuery]_vars

-----------------------------------------------------------------------------
\* The two duplicate detectors side by side: every submission is put to the
\* scan of the stored records (isDuplicateConsultation, isDuplicatePhoneLead
\* over the data file) and to the key table (hasDuplicateSubmission,
\* markDuplicateSubmission) at the same time; no write and no outbound call
\* fails. The bodies are valid and name their source, so that both servers
\* normalize them to the same fields.

\* submissions of one run
MaxSubmits == 3

\* startups of the server in a run
MaxStarts == 2

DupBodies ==
    { ConsultationBody(Name2, Str(PhoneA), PageA, ProductsXY),
      \* the same lead: padded phone, products in another order and repeated
      ConsultationBody(Str(<<"B", "o">>), Str(<<" ">> \o PhoneA \o <<" ">>), PageA,
                       Arr(<<Str(<<"y">>), Str(<<"x">>), Str(<<"y", " ">>)>>)),
      \* sourcePage and products that spell the same text when joined
      ConsultationBody(Name2, Str(PhoneA), PageA, Arr(<<Str(<<"x", ",", "y">>)>>)),
      ConsultationBody(Name2, Str(PhoneA), Str(<<"/", "a", "|", "x">>), Arr(<<Str(<<"y">>)>>)),
      ConsultationBody(Name2, Str(PhoneA), PageA, Arr(<<Str(<<"x", "|", "y">>)>>)),
      PhoneBody(Str(PhoneA), PageA),
      PhoneBody(Str(PhoneA), Str(<<"c", "t", "a">>)),
      PhoneBody(Str(PhoneB), PageA) }

InitDup ==
    /\ InitLimiter
    /\ variant = "file"
    /\ req = [s \in Slots |-> IdleReq]
    /\ file = JSONStringify(initialData)
    /\ writeQueue = <<>>
    /\ rejected = FALSE
    /\ duplicateStore = <<>>
    /\ outbound = <<>>
    /\ faults = 0
    /\ hist = [scan |-> <<>>, table |-> <<>>, subs |-> <<>>]
    /\ query = <<>>

\* SubmitBoth with a slip: the table marks the key of a rejected duplicate too
SubmitBothRefreshing(b) ==
    /\ Len(hist.scan) < MaxSubmits
    /\ LET n == Normalized(b)
           record == NewRecord(Len(hist.scan) + 1, b.endpoint, n, now)
           m == Mutate(JSONParse(file), record, now)
           key == duplicateKeyOf(b.endpoint, n)
           h == hasDuplicateSubmission(duplicateStore, key, now)
       IN /\ IsValidSubmission(b.endpoint, n)
          /\ file' = JSONStringify(m.next)
          /\ duplicateStore' = markDuplicateSubmission(h.store, key, now)
          /\ hist' = [scan |-> Append(hist.scan, m.duplicated),
                      table |-> Append(hist.table, h.dup),
                      subs |-> Append(hist.subs, [body |-> b, at |-> now])]
    /\ UNCHANGED <<variant, now, ticks, rateLimitStore, verdicts, winStart, lastCheck,
                   req, writeQueue, rejected, outbound, faults, query>>

\* one submission, decided by both detectors at the time now: the scan appends
\* the record when it is no duplicate, the table marks the key when it is none
SubmitBoth(b) ==
    /\ Len(hist.scan) < MaxSubmits
    /\ LET n == Normalized(b)
           record == NewRecord(Len(hist.scan) + 1, b.endpoint, n, now)
           m == Mutate(JSONParse(file), record, now)
           key == duplicateKeyOf(b.endpoint, n)
           h == hasDuplicateSubmission(duplicateStore, key, now)
       IN /\ IsValidSubmission(b.endpoint, n)
          /\ file' = JSONStringify(m.next)
          /\ duplicateStore' = IF h.dup THEN h.store
                                ELSE markDuplicateSubmission(h.store, key, now)
          /\ hist' = [scan |-> Append(hist.scan, m.duplicated),
                      table |-> Append(hist.table, h.dup),
                      subs |-> Append(hist.subs, [body |-> b, at |-> now])]
    /\ UNCHANGED <<variant, now, ticks, rateLimitStore, verdicts, winStart, lastCheck,
                   req, writeQueue, rejected, outbound, faults, query>>

NextDup ==
    \/ \E b \in DupBodies : SubmitBoth(b)
    \/ \E d \in TickSteps : SeqTick(d)

SpecDup == InitDup /\ [][NextDup]_vars

-----------------------------------------------------------------------------
\* The key table alone, called with times from 0 on (both functions take the
\* time as a parameter). hist holds every mark ever made (marked, never
\* evicted) and the last check: its key, time and answer, the table before
\* and after it, and the marks made until then.

TableKeys == {phoneDuplicateKey(PhoneA, <<"c", "t", "a">>), phoneDuplicateKey(PhoneB, <<"c", "t", "a">>)}

NoTableCheck == [key |-> <<>>, dup |-> FALSE, at |-> 0, before |-> <<>>, after |-> <<>>,
                 marked |-> <<>>]

InitTable ==
    /\ now = 0
    /\ ticks = 0
    /\ rateLimitStore = <<>>
    /\ verdicts = [k \in Ips \X Endpoints |-> <<>>]
    /\ winStart = [k \in Ips \X Endpoints |-> 0]
    /\ lastCheck = NoCheck
    /\ variant = "sync"
    /\ req = [s \in Slots |-> IdleReq]
    /\ file = Absent
    /\ writeQueue = <<>>
    /\ rejected = FALSE
    /\ duplicateStore = <<>>
    /\ outbound = <<>>
    /\ faults = 0
    /\ hist = [marked |-> <<>>, last |-> NoTableCheck]
    /\ query = <<>>

TableMark(k) ==
    /\ duplicateStore' = markDuplicateSubmission(duplicateStore, k, now)
    /\ hist' = [hist EXCEPT !.marked = markDuplicateSubmission(hist.marked, k, now)]
    /\ UNCHANGED <<variant, now, ticks, rateLimitStore, verdicts, winStart, lastCheck,
                   req, file, writeQueue, rejected, outbound, faults, query>>

TableCheck(k) ==
    /\ LET h == hasDuplicateSubmission(duplicateStore, k, now)
       IN /\ duplicateStore' = h.store
          /\ hist' = [hist EXCEPT !.last = [key |-> k, dup |-> h.dup, at |-> now,
                                            before |-> duplicateStore, after |-> h.store,
                                            marked |-> hist.marked]]
    /\ UNCHANGED <<variant, now, ticks, rateLimitStore, verdicts, winStart, lastCheck,
                   req, file, writeQueue, rejected, outbound, faults, query>>

NextTable ==
    \/ \E k \in TableKeys : TableMark(k)
    \/ \E k \in TableKeys : TableCheck(k)
    \/ \E d \in TickSteps : SeqTick(d)

SpecTable == InitTable /\ [][NextTable]_vars

-----------------------------------------------------------------------------
\* The tenant token cache of the outbound-sync server under concurrent calls
\* of getFeishuTenantToken. A token is a positive number, the empty text is 0.
\* hist holds the cache (feishuTokenCache), the calls, the number of tokens
\* the remote service has issued and the pairs the fetches have written.

\* concurrent callers of getFeishuTenantToken
NumCalls == 2

\* tokens the remote service issues in a run
MaxTokens == 2

TokenCalls == 1..NumCalls

\* data.expire of a response, in seconds; 0: the response carries none
Expires == {0, 90, 7200}

TokenTickSteps == {1, 59999}

NoCall == [pc |-> "idle", now |-> 0, result |-> 0, cached |-> FALSE]

\* Number(data.expire || 7200)
expiresInSeconds(expire) == IF expire = 0 THEN 7200 ELSE expire

\* now + Math.max(60, expiresInSeconds - 60) * 1000
expiresAtMs(t, expire) ==
    LET seconds == expiresInSeconds(expire) - 60
    IN t + (IF seconds < 60 THEN 60 ELSE seconds) * 1000

InitToken ==
    /\ now = MsPerDay - 1
    /\ ticks = 0
    /\ rateLimitStore = <<>>
    /\ verdicts = [k \in Ips \X Endpoints |-> <<>>]
    /\ winStart = [k \in Ips \X Endpoints |-> 0]
    /\ lastCheck = NoCheck
    /\ variant = "sync"
    /\ req = [s \in Slots |-> IdleReq]
    /\ file = Absent
    /\ writeQueue = <<>>
    /\ rejected = FALSE
    /\ duplicateStore = <<>>
    /\ outbound = <<>>
    /\ faults = 0
    /\ hist = [cache |-> [token |-> 0, expiresAtMs |-> 0],
               calls |-> [c \in TokenCalls |-> NoCall],
               issued |-> 0,
               written |-> {}]
    /\ query = <<>>

\* getFeishuTenantToken up to its await: the cached token while it is valid,
\* else the fetch starts, with now read before it
TokenCall(c) ==
    /\ hist.calls[c].pc \in {"idle", "done", "failed"}
    /\ hist' = [hist EXCEPT !.calls[c] =
                   IF hist.cache.token # 0 /\ now < hist.cache.expiresAtMs
                   THEN [pc |-> "done", now |-> now, result |-> hist.cache.token,
                         cached |-> TRUE]
                   ELSE [pc |-> "fetch", now |-> now, result |-> 0, cached |-> FALSE]]
    /\ UNCHANGED <<variant, now, ticks, rateLimitStore, verdicts, winStart, lastCheck,
                   req, file, writeQueue, rejected, duplicateStore, outbound, faults,
                   query>>

\* TokenFetched with a slip: the expiry is counted from the time of the response
TokenFetchedLate(c, expire) ==
    /\ hist.calls[c].pc = "fetch"
    /\ hist.issued < MaxTokens
    /\ LET token == hist.issued + 1
           pair == [token |-> token, expiresAtMs |-> expiresAtMs(now, expire)]
       IN hist' = [hist EXCEPT !.cache = pair,
                               !.calls[c].pc = "done",
                               !.calls[c].result = token,
                               !.issued = token,
                               !.written = @ \cup {[pair |-> pair, call |-> hist.calls[c].now,
                                                   expire |-> expire]}]
    /\ UNCHANGED <<variant, now, ticks, rateLimitStore, verdicts, winStart, lastCheck,
                   req, file, writeQueue, rejected, duplicateStore, outbound, faults,
                   query>>

\* the fetch returns a token: both fields of the cache are set, with no await
\* in between, and the token is returned
TokenFetched(c, expire) ==
    /\ hist.calls[c].pc = "fetch"
    /\ hist.issued < MaxTokens
    /\ LET token == hist.issued + 1
           pair == [token |-> token,
                    expiresAtMs |-> expiresAtMs(hist.calls[c].now, expire)]
       IN hist' = [hist EXCEPT !.cache = pair,
                               !.calls[c].pc = "done",
                               !.calls[c].result = token,
                               !.issued = token,
                               !.written = @ \cup {[pair |-> pair, call |-> hist.calls[c].now,
                                                   expire |-> expire]}]
    /\ UNCHANGED <<variant, now, ticks, rateLimitStore, verdicts, winStart, lastCheck,
                   req, file, writeQueue, rejected, duplicateStore, outbound, faults,
                   query>>

\* the fetch fails (no response, response not ok, code not 0, no token): the
\* call throws before it touches the cache
TokenFetchFails(c) ==
    /\ hist.calls[c].pc = "fetch"
    /\ faults < MaxFaults
    /\ faults' = faults + 1
    /\ hist' = [hist EXCEPT !.calls[c].pc = "failed"]
    /\ UNCHANGED <<variant, now, ticks, rateLimitStore, verdicts, winStart, lastCheck,
                   req, file, writeQueue, rejected, duplicateStore, outbound, query>>

TokenTick(d) ==
    /\ ticks < MaxSeqTicks
    /\ now' = now + d
    /\ ticks' = ticks + 1
    /\ UNCHANGED <<variant, rateLimitStore, verdicts, winStart, lastCheck, req, file,
                   writeQueue, rejected, duplicateStore, outbound, faults, hist, query>>

NextToken ==
    \/ \E c \in TokenCalls : TokenCall(c)
    \/ \E c \in TokenCalls, e \in Expires : TokenFetched(c, e)
    \/ \E c \in TokenCalls : TokenFetchFails(c)
    \/ \E d \in TokenTickSteps : TokenTick(d)

SpecToken == InitToken /\ [][NextToken]_vars

CacheValid == hist.cache.token # 0 /\ now < hist.cache.expiresAtMs

Calling(c) == hist.calls[c].pc # "fetch" /\ hist'.calls[c] # hist.calls[c]

Fetching(c) == hist.calls[c].pc = "fetch" /\ hist'.calls[c].pc = "done"

Failing(c) == hist.calls[c].pc = "fetch" /\ hist'.calls[c].pc = "failed"

\* max(60, expire - 60) seconds, a response without expire counting as 7200
CachedFor(expire) ==
    LET e == IF expire = 0 THEN 7200 ELSE expire
    IN IF e - 60 > 60 THEN (e - 60) * 1000 ELSE 60 * 1000

\* C39: getFeishuTenantToken returns the cached token exactly while the cache
\* holds a token and now < expiresAtMs, and otherwise starts a fetch without
\* touching the cache; a successful fetch caches and returns the new token with
\* expiresAtMs = the call's now + max(60, expire - 60) seconds; a failed fetch
\* leaves the cache as it was; and whatever the interleaving of the calls, the
\* cache is the initial one or a token/expiry pair written by one fetch, with
\* the expiry that fetch's own call gives it.
C39_TokenCache ==
    /\ [][\A c \in TokenCalls :
            /\ Calling(c) =>
                 /\ hist'.cache = hist.cache
                 /\ IF CacheValid
                    THEN /\ hist'.calls[c].pc = "done"
                         /\ hist'.calls[c].result = hist.cache.token
                    ELSE hist'.calls[c].pc = "fetch"
            /\ Fetching(c) =>
                 /\ hist'.cache.token = hist'.calls[c].result
                 /\ hist'.cache.token \notin {w.pair.token : w \in hist.written} \cup {0}
                 /\ \E e \in Expires :
                       hist'.cache.expiresAtMs = hist.calls[c].now + CachedFor(e)
            /\ Failing(c) => hist'.cache = hist.cache]_vars
    /\ [](\/ hist.cache = [token |-> 0, expiresAtMs |-> 0]
          \/ \E w \in hist.written :
                /\ hist.cache = w.pair
                /\ w.pair.expiresAtMs = w.call + CachedFor(w.expire))

\* two refreshes were in flight together and ended in the reverse of the order
\* they began in: the cache holds the pair of the one that began first; a later
\* call was answered from the cache one millisecond before its expiry, and a
\* fetch has failed
C39_Witness ==
    /\ hist.issued >= 2
    /\ faults > 0
    /\ \E c, d \in TokenCalls :
          /\ hist.calls[c].pc = "done" /\ hist.calls[c].cached
          /\ hist.calls[c].result = hist.cache.token
          /\ hist.calls[c].now = hist.cache.expiresAtMs - 1
          /\ hist.calls[d].pc = "failed"
    /\ \E w, v \in hist.written :
          /\ w.pair = hist.cache
          /\ v.pair.token < w.pair.token
          /\ w.call < v.call

-----------------------------------------------------------------------------
\* The startup of the server whose main store is the database leads.db, with
\* leads.json kept as the legacy file. Here file is the legacy file and hist
\* holds the durable store (db), whether the server is up, and the store and
\* the outcome of the last startup.

\* a legacy file that exists and cannot be read
Unreadable == <<[tok |-> "unreadable", coll |-> "", rec |-> <<>>]>>

NoLegacy == [ok |-> FALSE, data |-> initialData]

\* the legacy reader: a snapshot, or an error for a file that is missing,
\* cannot be read or does not parse
readLegacy(text) ==
    IF text = Absent \/ text = Unreadable \/ ~Parses(text)
    THEN NoLegacy
    ELSE [ok |-> TRUE, data |-> JSONParse(text)]

IsEmptyStore(db) == Len(db.consultations) + Len(db.phoneLeads) = 0

\* migrateLegacyIfEmpty with a slip: a legacy file that parses is imported
\* whatever the store holds
migrateLegacyAlways(db, text) ==
    IF readLegacy(text).ok THEN readLegacy(text).data ELSE db

\* migrateLegacyIfEmpty(): an empty store takes the legacy snapshot whole; a
\* failure to read or parse the legacy file is swallowed
migrateLegacyIfEmpty(db, text) ==
    IF IsEmptyStore(db) /\ readLegacy(text).ok THEN readLegacy(text).data ELSE db

LegacyFiles ==
    {Absent, Unreadable, <<>>, <<OpenTok>>}
    \cup {JSONStringify(data) : data \in Snapshots}

\* what the store holds before the first startup
StoredBefore == {data \in Snapshots : Len(data.consultations) + Len(data.phoneLeads) <= 1}

NewLead == [id |-> 0, endpoint |-> "phone", name |-> <<>>, phone |-> PhoneB,
            source |-> <<"c", "t", "a">>, products |-> <<>>,
            createdAt |-> toISOString(QueryTimes[3])]

InitMigrate ==
    /\ InitLimiter
    /\ variant = "file"
    /\ req = [s \in Slots |-> IdleReq]
    /\ file \in LegacyFiles
    /\ writeQueue = <<>>
    /\ rejected = FALSE
    /\ duplicateStore = <<>>
    /\ outbound = <<>>
    /\ faults = 0
    /\ \E db \in StoredBefore :
          hist = [db |-> db, up |-> FALSE, starts |-> 0, found |-> db]
    /\ query = <<>>

\* the startup step, before any other operation of the store is served
Startup ==
    /\ ~hist.up
    /\ hist.starts < MaxStarts
    /\ hist' = [db |-> migrateLegacyIfEmpty(hist.db, file), up |-> TRUE,
                starts |-> hist.starts + 1, found |-> hist.db]
    /\ UNCHANGED <<variant, now, ticks, rateLimitStore, verdicts, winStart, lastCheck,
                   req, file, writeQueue, rejected, duplicateStore, outbound, faults,
                   query>>

\* after the import new data goes to the store; the legacy file is kept as it is
StoreAppend ==
    /\ hist.up
    /\ Len(hist.db.phoneLeads) < MaxRecords
    /\ hist' = [hist EXCEPT !.db.phoneLeads =
                   Append(@, [NewLead EXCEPT !.id = Len(hist.db.phoneLeads) + 1])]
    /\ UNCHANGED <<variant, now, ticks, rateLimitStore, verdicts, winStart, lastCheck,
                   req, file, writeQueue, rejected, duplicateStore, outbound, faults,
                   query>>

Shutdown ==
    /\ hist.up
    /\ hist' = [hist EXCEPT !.up = FALSE]
    /\ UNCHANGED <<variant, now, ticks, rateLimitStore, verdicts, winStart, lastCheck,
                   req, file, writeQueue, rejected, duplicateStore, outbound, faults,
                   query>>

NextMigrate == Startup \/ StoreAppend \/ Shutdown

SpecMigrate == InitMigrate /\ [][NextMigrate]_vars

-----------------------------------------------------------------------------
\* Properties of the limiter

\* C8: within one rate-limit window of a key, the n-th request of the key is
\* rejected if and only if n > 12.
C8_NthRejectedIffOver12 ==
    \A k \in RateKeys : \A n \in 1..Len(verdicts[k]) : verdicts[k][n] <=> (n > 12)

\* a window in which the 12th request passed and the 13th was rejected
C8_Witness ==
    \E k \in RateKeys :
        /\ Len(verdicts[k]) >= 13
        /\ ~verdicts[k][12]
        /\ verdicts[k][13]

\* C9: the request that opens a window (the key's first one, or the first one
\* with now - windowStart >= 60s) passes and leaves {windowStart: now, count: 1};
\* a request inside a window, rejected ones included, adds one to count and
\* leaves windowStart where the opening request put it.
C9_WindowReset ==
    lastCheck.key # <<>> =>
        IF lastCheck.opened
        THEN /\ ~lastCheck.limited
             /\ lastCheck.windowStart = lastCheck.at
             /\ lastCheck.count = 1
        ELSE /\ lastCheck.windowStart = lastCheck.start
             /\ lastCheck.at - lastCheck.start < 60000
             /\ lastCheck.count = lastCheck.n

\* a client that was being rejected sends again exactly 60s after its window
\* started and is admitted
C9_Witness ==
    /\ lastCheck.key # <<>>
    /\ lastCheck.opened
    /\ lastCheck.prevLimited
    /\ lastCheck.at - lastCheck.prevStart = RATE_LIMIT_WINDOW_MS
    /\ ~lastCheck.limited

-----------------------------------------------------------------------------
\* What the properties of the servers speak of

\* the records in the data file (whole or cut short) and in the outbound table
FileRecords == RecsOf(file, "consultations") \o RecsOf(file, "phoneLeads")

StoredRecords == IF variant = "file" THEN FileRecords ELSE outbound

StoredIds == {StoredRecords[i].id : i \in 1..Len(StoredRecords)}

\* the submissions answered 201
Accepted == {s \in Posts : req[s].pc = "done" /\ req[s].status = 201}

ProductSet(products) == {products[i] : i \in 1..Len(products)}

\* the equality key of a record: (phone, sourcePage, product set) of a
\* consultation, (phone, source) of a phone lead
EqualityKey(record) ==
    <<record.endpoint, record.phone, record.source, ProductSet(record.products)>>

\* the submitted phone, trimmed, and ^1\d{10}$ read off the regular expression
TrimmedPhone(body) == IF body.phone.t = "str" THEN Trim(body.phone.v) ELSE <<>>

PhoneMatches(p) ==
    /\ p # <<>>
    /\ Head(p) = "1"
    /\ Len(Tail(p)) = 10
    /\ \A i \in 1..10 : Tail(p)[i] \in Digits

\* the write tasks that have started and not settled
TasksRunning ==
    {s \in Posts : req[s].pc \in {"ensure", "ensureWrite", "read", "open", "write"}}

-----------------------------------------------------------------------------
\* Properties of the file-backed store

\* C1: at most one read-mutate-write task is in flight at a time, each task's
\* mutator receives the snapshot the previous task wrote, and once all requests
\* are answered every accepted submission's record is in the store.
C1_WriteSerialization ==
    variant = "file" =>
        /\ Cardinality(TasksRunning) <= 1
        /\ \A s \in Posts : ~req[s].stale
        /\ (InFlight = {} /\ Parses(file)) =>
              /\ Accepted \subseteq StoredIds
              /\ Len(StoredRecords) = Cardinality(Accepted)

\* C2: a write that fails is reported to its caller only: every write enqueued
\* after it still runs, so a submission answered with the storage fault is one
\* whose own task ran and threw.
C2_LaterWritesStillRun ==
    \A s \in Posts : (req[s].pc = "done" /\ req[s].status = 500) => req[s].ran

\* C3: when persistence fails during a submission's write, the submission is
\* answered with the storage fault and the store still holds the snapshot the
\* write started from.
C3_FailedWriteLeavesSnapshot ==
    \A s \in Posts :
        req[s].failedWrite => /\ req[s].status = 500
                              /\ req[s].intact

\* C4: a read request whose read happens while a write is in progress is
\* answered with a complete snapshot; it never fails because of the write.
C4_ReadDuringWriteSucceeds ==
    [][\A g \in Gets :
          (/\ req[g].pc = "read"
           /\ req'[g].pc = "done"
           /\ \E s \in Posts : req[s].pc = "write")
          => req'[g].status = 200]_vars

-----------------------------------------------------------------------------
\* Properties of the duplicate detector

\* the accepted submissions answered before s arrived that have s's equality key
SameKeyBefore(s) ==
    {p \in req[s].prior \cap Accepted :
        EqualityKey(req[p].record) = EqualityKey(req[s].record)}

\* C5: of sequential submissions with one equality key the first is accepted,
\* one made within 10 minutes of the last accepted one is answered 409 and adds
\* no record, and one made more than 10 minutes after it is accepted.
C5_SequentialDuplicates ==
    \A s \in Posts :
        (req[s].pc = "done" /\ req[s].status \in {201, 409}) =>
            /\ req[s].status = 201 <=>
                  \A p \in SameKeyBefore(s) :
                      req[s].at - req[p].acceptedAt > DUPLICATE_WINDOW_MS
            /\ req[s].status = 409 => s \notin StoredIds
            /\ (req[s].status = 201 /\ (variant = "file" => Parses(file))) =>
                  s \in StoredIds

\* a submission made exactly 10 minutes after the accepted one was rejected,
\* or one made later than that was accepted, the products sent in another order
C5_Witness ==
    \E s \in Posts :
        /\ req[s].pc = "done"
        /\ \E p \in SameKeyBefore(s) :
              /\ req[p].record.products # req[s].record.products
              /\ \/ /\ req[s].status = 409
                    /\ req[s].at - req[p].acceptedAt = DUPLICATE_WINDOW_MS
                 \/ /\ req[s].status = 201
                    /\ req[s].at - req[p].acceptedAt > DUPLICATE_WINDOW_MS

\* C6: of two submissions with one equality key that are in flight at the same
\* time, at most one is accepted.
C6_ConcurrentDuplicates ==
    \A s1, s2 \in Accepted :
        (/\ s1 # s2
         /\ s1 \in req[s2].inflight
         /\ EqualityKey(req[s1].record) = EqualityKey(req[s2].record))
        => FALSE

\* C7: a submission detected as a duplicate has issued no write to the durable
\* store, and the limiter has counted it.
C7_DuplicateWritesNothing ==
    \A s \in Posts :
        (req[s].pc = "done" /\ req[s].status = 409) =>
            /\ ~req[s].wrote
            /\ req[s].counted

-----------------------------------------------------------------------------
\* Properties of the validation

\* the submissions whose trimmed phone does not match ^1\d{10}$
InvalidPhonePosts ==
    {s \in Posts : req[s].pc # "idle" /\ ~PhoneMatches(TrimmedPhone(req[s].body))}

\* the handler never builds a record for s, queues no write and starts no
\* outbound call
NeverStored(s) ==
    /\ req[s].pc \in {"body", "done"}
    /\ req[s].record = NoRecord
    /\ s \notin StoredIds
    /\ \A i \in 1..Len(writeQueue) : writeQueue[i] # s

-----------------------------------------------------------------------------
\* Properties of the stored records

\* C11: every record in the store or in the outbound table has a phone that
\* matches ^1\d{10}$, and every consultation record has a name of 1..40
\* characters and a sourcePage (a phone lead: a source) of at most 40.
C11_StoredRecordsValid ==
    \A i \in 1..Len(StoredRecords) :
        LET r == StoredRecords[i]
        IN /\ PhoneMatches(r.phone)
           /\ Len(r.source) <= 40
           /\ r.endpoint = "consultation" => Len(r.name) \in 1..40

\* a consultation whose name and sourcePage were sent longer than 40 characters
\* is stored with both cut to 40
C11_Witness ==
    \E i \in 1..Len(StoredRecords) :
        LET r == StoredRecords[i]
        IN /\ r.endpoint = "consultation"
           /\ Len(r.name) = 40
           /\ Len(r.source) = 40
           /\ Len(Trim(req[r.id].body.name.v)) > 40
           /\ Len(Trim(req[r.id].body.source.v)) > 40

-----------------------------------------------------------------------------
\* Properties of the rejections

\* the handler rejects the body: malformed JSON or a field that fails validation
InvalidBody(body) ==
    body.json # "ok" \/ ~IsValidSubmission(body.endpoint, Normalized(body))

\* the step in which submission s arrives and passes the limiter, and the step
\* in which it is answered 400
ArriveStep(s) == req[s].pc = "idle" /\ req'[s].pc = "body"

RejectStep(s) == req[s].pc = "body" /\ req'[s].pc = "done" /\ req'[s].status = 400

QueryRejectStep == query = <<>> /\ query' # <<>> /\ query'.status = 400

StoreUntouched ==
    /\ file' = file
    /\ writeQueue' = writeQueue
    /\ outbound' = outbound
    /\ duplicateStore' = duplicateStore

\* the limiter has counted one more request of the key
Counted(key) ==
    /\ key \in DOMAIN rateLimitStore'
    /\ rateLimitStore'[key].count =
          IF key \in DOMAIN rateLimitStore /\ ~RateEntryStale(rateLimitStore[key], now)
          THEN rateLimitStore[key].count + 1
          ELSE 1

-----------------------------------------------------------------------------
\* Properties of the query engine

\* a query has been answered 200
Answered ==
    /\ query # <<>>
    /\ query.kind \in {"consultations", "phoneLeads"}
    /\ query.pc = "done"
    /\ query.status = 200

\* the records of the queried collection that pass the query's filters
Filtered ==
    FilterSeq(JSONParse(file)[query.kind], query.kind, query.params, query.options)

\* the list handed to paginate
Sorted == sortByCreatedAtDesc(Filtered)

\* the least k with k * pageSize >= total
PagesNeeded(total, pageSize) ==
    CHOOSE k \in 0..total : k * pageSize >= total /\ (k = 0 \/ (k - 1) * pageSize < total)

\* C13: paginate returns totalPages = ceil(total / pageSize) (0 when total = 0),
\* page = min(page, totalPages) (1 when totalPages = 0) and the items of the
\* list at offsets [(page-1)*pageSize, page*pageSize) for that page; a request
\* past the last page gets the last page's items, non-empty when total > 0.
C13_Pagination ==
    Answered =>
        LET total == Len(Sorted)
            asked == query.options.page
            size == query.options.pageSize
            pages == PagesNeeded(total, size)
            page == IF pages = 0 THEN 1 ELSE IF asked > pages THEN pages ELSE asked
            slots == {i \in 1..total : (page - 1) * size < i /\ i <= page * size}
        IN /\ query.page.total = total
           /\ query.page.totalPages = pages
           /\ query.page.page = page
           /\ Len(query.page.items) = Cardinality(slots)
           /\ \A i \in 1..Len(query.page.items) :
                 query.page.items[i] = Sorted[(page - 1) * size + i]
           /\ total > 0 => query.page.items # <<>>

\* a request for a page past the last of several pages was answered with the
\* last page
C13_Witness ==
    /\ Answered
    /\ query.page.totalPages >= 2
    /\ query.options.page > query.page.totalPages
    /\ query.page.page = query.page.totalPages
    /\ query.page.items # <<>>

\* the whole result is on the page that was returned
OnePage == Answered /\ query.page.totalPages <= 1

\* the time a record is ordered by: the epoch when createdAt is no time
OrderTime(record) ==
    IF DateParse(record.createdAt) = NaN THEN 0 ELSE DateParse(record.createdAt)

\* C14: the query result is a permutation of the filtered records, ordered by
\* createdAt descending, a record whose createdAt does not parse being ordered
\* as the epoch (after every record with a positive timestamp).
C14_SortedPermutation ==
    OnePage =>
        LET items == query.page.items
        IN /\ Len(items) = Len(Filtered)
           /\ \A i \in 1..Len(Filtered) :
                 Cardinality({j \in 1..Len(items) : items[j] = Filtered[i]}) = 1
           /\ \A i, j \in 1..Len(items) :
                 i < j => OrderTime(items[i]) >= OrderTime(items[j])
           /\ \A i, j \in 1..Len(items) :
                 (/\ DateParse(items[i].createdAt) = NaN
                  /\ DateParse(items[j].createdAt) # NaN
                  /\ DateParse(items[j].createdAt) > 0) => j < i

\* a stored record whose createdAt is no time came before later records and is
\* returned last
C14_Witness ==
    /\ OnePage
    /\ Len(query.page.items) >= 3
    /\ DateParse(Filtered[1].createdAt) = NaN
    /\ DateParse(query.page.items[Len(query.page.items)].createdAt) = NaN
    /\ OrderTime(query.page.items[1]) > OrderTime(query.page.items[2])

-----------------------------------------------------------------------------
\* Properties of the summary

SummaryAnswered ==
    /\ query # <<>>
    /\ query.kind = "summary"
    /\ query.pc = "done"
    /\ query.status = 200

\* how many of the records have the value as their sourcePage / source
WithSource(records, value) ==
    Cardinality({i \in 1..Len(records) : records[i].source = value})

\* how many of the records have the product among their intentionProducts
WithProduct(records, product) ==
    Cardinality({i \in 1..Len(records) :
                    \E j \in 1..Len(records[i].products) : records[i].products[j] = product})

\* the count a top list gives for a key: 0 when the list has no entry for it
CountFor(list, key) ==
    IF \E i \in 1..Len(list) : list[i].key = key
    THEN (CHOOSE e \in {list[i] : i \in 1..Len(list)} : e.key = key).count
    ELSE 0

NonIncreasing(list) ==
    \A i, j \in 1..Len(list) : i < j => list[i].count >= list[j].count

\* the values the summary can be asked about: those of the records, and "unknown"
SourcesOf(records) ==
    {records[i].source : i \in 1..Len(records)} \cup {OrUnknown(Undefined).v}

ProductsOf(records) ==
    UNION {{records[i].products[j] : j \in 1..Len(records[i].products)} :
              i \in 1..Len(records)}

\* C15: the summary's count for a sourcePage is the number of consultations
\* with that sourcePage, its count for a product is the number of consultations
\* whose intentionProducts contain it, its count for a source is the number of
\* phone leads with that source, and each list is ordered by count non-increasing.
C15_Aggregation ==
    SummaryAnswered =>
        LET data == JSONParse(file)
            top == query.summary
        IN /\ \A v \in SourcesOf(data.consultations) :
                 CountFor(top.consultationBySourcePage, v) = WithSource(data.consultations, v)
           /\ \A v \in ProductsOf(data.consultations) :
                 CountFor(top.consultationByProduct, v) = WithProduct(data.consultations, v)
           /\ \A v \in SourcesOf(data.phoneLeads) :
                 CountFor(top.phoneLeadBySource, v) = WithSource(data.phoneLeads, v)
           /\ NonIncreasing(top.consultationBySourcePage)
           /\ NonIncreasing(top.consultationByProduct)
           /\ NonIncreasing(top.phoneLeadBySource)

-----------------------------------------------------------------------------
\* Properties of the query parameters

\* the parameter is supplied: present and not the empty text
Supplied(value) == value.t # "null" /\ ~(value.t = "str" /\ value.v = <<>>)

\* the parameter is a text of digits that reads as an integer of lo..hi
IntegerIn(value, lo, hi) ==
    /\ value.t = "str"
    /\ AllDigits(value.v)
    /\ ToNumber(value.v) >= lo
    /\ ToNumber(value.v) <= hi

\* a date parameter that is present (more than white space) and does not parse
Unparsable(value) ==
    \/ value.t = "str" /\ Trim(value.v) # <<>>
    \/ value.t = "iso" /\ DateParse(value.iso) = NaN

Parsable(value) == value.t = "iso" /\ DateParse(value.iso) # NaN

StartsLater(searchParams) ==
    /\ Parsable(searchParams.startAt)
    /\ Parsable(searchParams.endAt)
    /\ DateParse(searchParams.startAt.iso) > DateParse(searchParams.endAt.iso)

Malformed(searchParams) ==
    \/ Supplied(searchParams.page) /\ ~IntegerIn(searchParams.page, 1, MAX_PAGE)
    \/ Supplied(searchParams.pageSize) /\ ~IntegerIn(searchParams.pageSize, 1, MAX_PAGE_SIZE)
    \/ Unparsable(searchParams.startAt)
    \/ Unparsable(searchParams.endAt)
    \/ StartsLater(searchParams)

ListQuery == query # <<>> /\ query.kind \in {"consultations", "phoneLeads"}

\* C16: a list query whose startAt or endAt is present and does not parse, whose
\* startAt is later than its endAt, whose page is not an integer >= 1 or whose
\* pageSize is outside 1..100 is answered 400 on arrival, without the store
\* being read or a record filtered; a query with startAt equal to endAt, or
\* with a bound absent, is not rejected for its bounds.
C16_QueryValidation ==
    ListQuery =>
        /\ Malformed(query.params) =>
              /\ query.pc = "done"
              /\ query.status = 400
              /\ query.page = NoPage
        /\ ~Malformed(query.params) => query.status # 400
        /\ query.status = 400 => query.options.error

\* a query whose startAt is later than its endAt has been answered 400 over a
\* store that holds records
C16_Witness ==
    /\ ListQuery
    /\ StartsLater(query.params)
    /\ query.status = 400
    /\ query.pc = "done"
    /\ Parses(file)
    /\ Len(JSONParse(file).consultations) > 0

-----------------------------------------------------------------------------
\* Properties of the filter

ConsultationsAnswered == OnePage /\ query.kind = "consultations"

\* the records of the answer
ResultIds == {query.page.items[i].id : i \in 1..Len(query.page.items)}

\* the text is a case-insensitive substring of the field
SubstringOf(text, field) ==
    \E i \in 0..(Len(field) - Len(text)) :
        \A j \in 1..Len(text) : LowerOf(field[i + j]) = LowerOf(text[j])

\* createdAt lies in the inclusive range of the bounds that are given
InRange(record, searchParams) ==
    /\ Parsable(searchParams.startAt) =>
          /\ DateParse(record.createdAt) # NaN
          /\ DateParse(record.createdAt) >= DateParse(searchParams.startAt.iso)
    /\ Parsable(searchParams.endAt) =>
          /\ DateParse(record.createdAt) # NaN
          /\ DateParse(record.createdAt) <= DateParse(searchParams.endAt.iso)

\* the filter value as sent: nothing when the parameter is absent
SentText(value) == IF value.t = "str" THEN value.v ELSE <<>>

\* the filter value as the handler reads it: trimmed and cut to its cap
ReadText(value, cap) ==
    LET trimmed == Trim(SentText(value))
    IN SubSeq(trimmed, 1, IF Len(trimmed) < cap THEN Len(trimmed) ELSE cap)

\* every filter holds for the record, the filters being phone, name, sourcePage
\* and product
Holds(record, phone, name, sourcePage, product, searchParams) ==
    /\ phone # <<>> => SubstringOf(phone, record.phone)
    /\ name # <<>> => SubstringOf(name, record.name)
    /\ sourcePage # <<>> => SubstringOf(sourcePage, record.source)
    /\ product # <<>> => product \in ProductSet(record.products)
    /\ InRange(record, searchParams)

\* C17: a consultation is in the query result if and only if every supplied
\* filter holds for it, the filter values taken as they were sent: phone, name
\* and sourcePage as case-insensitive substrings, product as an exact member of
\* intentionProducts, createdAt in the inclusive range of the bounds given; an
\* absent or empty filter excludes nothing.
C17_FilterAsSent ==
    ConsultationsAnswered =>
        LET records == JSONParse(file).consultations
            q == query.params
        IN \A i \in 1..Len(records) :
              records[i].id \in ResultIds
                  <=> Holds(records[i], SentText(q.phone), SentText(q.name),
                            SentText(q.sourcePage), SentText(q.product), q)

\* C17, amended: the same, the filter values taken as the handler reads them:
\* trimmed, and cut to 20 (phone), 40 (name, sourcePage) and 30 (product)
\* characters; a filter that is absent, empty or white space excludes nothing.
C17_FilterAsRead ==
    ConsultationsAnswered =>
        LET records == JSONParse(file).consultations
            q == query.params
        IN \A i \in 1..Len(records) :
              records[i].id \in ResultIds
                  <=> Holds(records[i], ReadText(q.phone, 20), ReadText(q.name, 40),
                            ReadText(q.sourcePage, 40), ReadText(q.product, 30), q)

\* a name filter sent with white space around it has kept one record of the
\* store and dropped another
C17_Witness ==
    /\ ConsultationsAnswered
    /\ SentText(query.params.name) # ReadText(query.params.name, 40)
    /\ ResultIds # {}
    /\ \E i \in 1..Len(JSONParse(file).consultations) :
          JSONParse(file).consultations[i].id \notin ResultIds

-----------------------------------------------------------------------------
\* Properties of the duplicate detectors

\* the consultations answered 409
RejectedAsDuplicate ==
    {s \in Posts : /\ req[s].pc = "done"
                   /\ req[s].status = 409
                   /\ req[s].body.endpoint = "consultation"}

\* the stored consultation has the phone, the sourcePage and the product set
\* of the submission
SameLead(record, body) ==
    LET n == Normalized(body)
    IN /\ record.endpoint = "consultation"
       /\ record.phone = n.phone
       /\ record.source = n.source
       /\ ProductSet(record.products) = ProductSet(n.products)

\* C19: a consultation is rejected as a duplicate only of an accepted
\* consultation with the same phone, the same sourcePage and the same product
\* set, whatever characters the fields hold ('|' and ',' among them).
C19_DuplicateOnlyIfEqual ==
    \A s \in RejectedAsDuplicate :
        \E i \in 1..Len(StoredRecords) : SameLead(StoredRecords[i], req[s].body)

\* C18: the scan of the stored records and the key table give every
\* submission of a run the same decision, duplicate or not.
C18_DetectorsAgree == hist.scan = hist.table

-----------------------------------------------------------------------------
\* Properties of the storage faults

\* the write of the data file or the outbound call of submission s fails
FaultStep(s) ==
    /\ req[s].pc # "done"
    /\ req'[s].pc = "done"
    /\ faults' = faults + 1

\* submission r is the next one after submission s, which was answered with a
\* storage fault, and repeats it
RetryOf(r, s) ==
    /\ r = s + 1
    /\ req[s].pc = "done"
    /\ req[s].status \in {500, 502}
    /\ req[r].pc = "done"
    /\ req[r].body = req[s].body

\* C20: a submission whose write (or outbound record creation) fails is
\* answered 500 or 502, not 400, 409 or 429; no record of it is stored and no
\* duplicate key is marked; the same submission sent again right after it is
\* not answered 409.
C20_FaultRetryable ==
    [][/\ \A s \in Posts :
             FaultStep(s) =>
                 /\ req'[s].status \in {500, 502}
                 /\ s \notin StoredIds'
                 /\ duplicateStore' = duplicateStore
                 /\ outbound' = outbound
       /\ \A r, s \in Posts : RetryOf(r, s)' => req'[r].status # 409]_vars

\* the outbound call of a submission failed and the same submission, sent
\* again, was accepted
C20_Witness ==
    \E r, s \in Posts :
        /\ RetryOf(r, s)
        /\ req[s].status = 502
        /\ req[r].status = 201
        /\ r \in StoredIds
        /\ s \notin StoredIds

-----------------------------------------------------------------------------
\* Properties of the bursts

\* the requests that passed at a time of the 60 seconds from time a on, both
\* ends of the interval included
PassedFrom(a) ==
    {i \in 1..Len(hist) : hist[i].at >= a /\ hist[i].at - a <= RATE_LIMIT_WINDOW_MS}

WindowsOf(passed) == {hist[i].start : i \in passed}

\* C21: in every interval of 60 seconds at most 24 requests of the key pass
\* the limiter, and more than 12 pass only when the interval holds requests
\* of two windows.
C21_BurstBound ==
    \A j \in 1..Len(hist) :
        LET passed == PassedFrom(hist[j].at)
        IN /\ Cardinality(passed) <= 2 * RATE_LIMIT_MAX_REQUESTS
           /\ Cardinality(passed) > RATE_LIMIT_MAX_REQUESTS
                 => Cardinality(WindowsOf(passed)) = 2

\* 24 requests have passed within 60 seconds, 12 of a window and 12 of the
\* window that a request opened 60 seconds after the first of them
C21_Witness ==
    \E j \in 1..Len(hist) :
        LET passed == PassedFrom(hist[j].at)
        IN /\ Cardinality(passed) = 2 * RATE_LIMIT_MAX_REQUESTS
           /\ Cardinality(WindowsOf(passed)) = 2
           /\ \E i \in passed : hist[i].at - hist[j].at = RATE_LIMIT_WINDOW_MS

-----------------------------------------------------------------------------
\* Properties of the rate-limit table

\* the step is an isRateLimited check
CheckStep == lastCheck' # lastCheck

\* C22: right after an isRateLimited check at time now the table holds no
\* entry with now - windowStart >= 60s, and every entry it holds is of a key
\* that requested at the entry's windowStart, so the table holds no more
\* entries than keys that requested during the last 60 seconds; a step that
\* is no check leaves the table as it is.
C22_LazyEviction ==
    [][/\ CheckStep =>
             \A k \in DOMAIN rateLimitStore' :
                 /\ now' - rateLimitStore'[k].windowStart < RATE_LIMIT_WINDOW_MS
                 /\ verdicts'[k] # <<>>
                 /\ winStart'[k] = rateLimitStore'[k].windowStart
       /\ ~CheckStep => rateLimitStore' = rateLimitStore]_vars

\* a check of one key has just evicted the expired entry of another key
C22_Witness ==
    /\ lastCheck.key # <<>>
    /\ lastCheck.at = now
    /\ \E k \in RateKeys :
          /\ k # lastCheck.key
          /\ verdicts[k] # <<>>
          /\ now - winStart[k] >= RATE_LIMIT_WINDOW_MS
          /\ k \notin DOMAIN rateLimitStore

-----------------------------------------------------------------------------
\* Properties of the source of a record

\* the submitted sourcePage / source is missing, no string, or blank once trimmed
NoSourceGiven(body) ==
    \/ body.source.t # "str"
    \/ Trim(body.source.v) = <<>>

\* C23: every accepted record has a sourcePage / source that is not empty and
\* at most 40 characters long, and that is "unknown" when the submitted one is
\* missing, no string, or blank after trimming.
C23_SourceDefaults ==
    \A s \in Accepted :
        \A i \in 1..Len(StoredRecords) :
            StoredRecords[i].id = s =>
                /\ StoredRecords[i].source # <<>>
                /\ Len(StoredRecords[i].source) <= SOURCE_MAX_LEN
                /\ NoSourceGiven(req[s].body)
                      => StoredRecords[i].source = OrUnknown(Undefined).v

-----------------------------------------------------------------------------
\* Properties of the products of a record

\* a submitted entry, trimmed and then cut to 30 characters; nothing for an
\* entry that is no string
CutEntry(item) ==
    IF item.t # "str" THEN <<>>
    ELSE LET trimmed == Trim(item.v)
         IN SubSeq(trimmed, 1,
                   IF Len(trimmed) < PRODUCT_MAX_LEN THEN Len(trimmed) ELSE PRODUCT_MAX_LEN)

\* the entries a submitted intentionProducts value yields
EntriesOf(products) ==
    IF products.t # "arr" THEN {}
    ELSE {CutEntry(products.v[i]) : i \in 1..Len(products.v)} \ {<<>>}

\* the consultations answered, with a body that parsed
ConsultationsDone ==
    {s \in Posts : /\ req[s].pc = "done"
                   /\ req[s].body.endpoint = "consultation"
                   /\ req[s].body.json = "ok"}

\* C24: the intentionProducts of an accepted consultation are the submitted
\* entries, each trimmed and cut to 30 characters, without the empty ones and
\* without repetitions (entries equal after the cut count once); a submission
\* whose intentionProducts is no list, or yields no entry, is rejected.
C24_ProductNormalization ==
    \A s \in ConsultationsDone :
        /\ \A i \in 1..Len(StoredRecords) :
              StoredRecords[i].id = s =>
                  LET products == StoredRecords[i].products
                  IN /\ ProductSet(products) = EntriesOf(req[s].body.products)
                     /\ Cardinality(ProductSet(products)) = Len(products)
                     /\ \A j \in 1..Len(products) :
                           /\ products[j] # <<>>
                           /\ Len(products[j]) <= PRODUCT_MAX_LEN
        /\ EntriesOf(req[s].body.products) = {} =>
              /\ req[s].status \in {400, 429}
              /\ s \notin StoredIds

\* an accepted consultation of which two submitted entries, one of them over
\* 30 characters long, became one entry of 30 characters
C24_Witness ==
    \E s \in ConsultationsDone \cap Accepted :
        \E i \in 1..Len(StoredRecords) :
            /\ StoredRecords[i].id = s
            /\ Len(StoredRecords[i].products) < Len(req[s].body.products.v)
            /\ \E j \in 1..Len(StoredRecords[i].products) :
                  Len(StoredRecords[i].products[j]) = PRODUCT_MAX_LEN
            /\ \E j \in 1..Len(req[s].body.products.v) :
                  Len(req[s].body.products.v[j].v) > PRODUCT_MAX_LEN

-----------------------------------------------------------------------------
\* Properties of the writes

\* the task of submission s finishes its fs.writeFile
WriteDone(s) ==
    /\ req[s].pc = "write"
    /\ req'[s].pc = "done"
    /\ req'[s].status \in {201, 409}

\* the list is the old list, or the old list and one record after it
SameOrOneMore(old, new) ==
    \/ new = old
    \/ Len(new) = Len(old) + 1 /\ SubSeq(new, 1, Len(old)) = old

\* the snapshot is the old one, with at most one record appended to one of
\* its two collections
AppendsAtMostOne(old, new) ==
    \/ /\ SameOrOneMore(old.consultations, new.consultations)
       /\ new.phoneLeads = old.phoneLeads
    \/ /\ new.consultations = old.consultations
       /\ SameOrOneMore(old.phoneLeads, new.phoneLeads)

\* C25: every write that succeeds leaves the snapshot its task read, with at
\* most one record appended at the end of one of the two collections; it
\* changes, removes and reorders no record of that snapshot.
C25_AppendOnly ==
    [][\A s \in Posts :
          WriteDone(s) =>
              /\ Parses(file')
              /\ AppendsAtMostOne(JSONParse(req[s].readText), JSONParse(file'))]_vars

\* a write has appended a second consultation after the one its task read
C25_Witness ==
    \E s \in Accepted :
        /\ variant = "file"
        /\ file = hist.lastWritten
        /\ Len(RecsOf(req[s].readText, "consultations")) = 1
        /\ Len(RecsOf(file, "consultations")) = 2
        /\ RecsOf(file, "consultations")[2].id = s

-----------------------------------------------------------------------------
\* Properties of the counters

\* the entry of the key has not expired
Unexpired(store, k, t) ==
    /\ k \in DOMAIN store
    /\ t - store[k].windowStart < RATE_LIMIT_WINDOW_MS

\* C26: however the checks of the keys interleave, the count of a key is the
\* number of its requests checked in its window, and a check of one key
\* leaves the unexpired entry of every other key as it is.
C26_NoLostUpdates ==
    [][/\ \A k \in DOMAIN rateLimitStore' :
             rateLimitStore'[k].count = Len(verdicts'[k])
       /\ CheckStep =>
             \A k \in RateKeys :
                 k # lastCheck'.key /\ Unexpired(rateLimitStore, k, now)
                     => /\ k \in DOMAIN rateLimitStore'
                        /\ rateLimitStore'[k] = rateLimitStore[k]]_vars

\* the checks of two keys have interleaved inside one window: both entries
\* are unexpired and hold counts of two or more
C26_Witness ==
    /\ lastCheck.key # <<>>
    /\ lastCheck.at = now
    /\ lastCheck.count >= 2
    /\ \E k \in RateKeys :
          /\ k # lastCheck.key
          /\ Unexpired(rateLimitStore, k, now)
          /\ rateLimitStore[k].count >= 2
          /\ rateLimitStore[k].count = Len(verdicts[k])

-----------------------------------------------------------------------------
\* Properties of the reads

\* the submissions whose write is queued or in flight
WritesPending ==
    {s \in Posts : req[s].pc \in {"queued", "ensure", "ensureWrite", "read", "open", "write"}}

\* C27: a read request of the file-backed store that is answered while a
\* write is queued or in flight is answered with a snapshot (200); it does
\* not wait for the write.
C27_ReadsDoNotWait ==
    [][\A g \in Gets :
          (/\ variant = "file"
           /\ req[g].pc # "done"
           /\ req'[g].pc = "done"
           /\ WritesPending # {})
          => req'[g].status = 200]_vars

-----------------------------------------------------------------------------
\* Properties of the progress of the write queue

\* the submissions ahead of s in the chain q
Ahead(q, s) == {q[i] : i \in {j \in 1..Len(q) : \E k \in (j + 1)..Len(q) : q[k] = s}}

InChain(q, s) == \E i \in 1..Len(q) : q[i] = s

\* C28: under fair scheduling, with every file-system call returning, every
\* submission that has arrived is answered in the end, a request that has been
\* answered is never answered again, and a task that waits in the chain waits
\* only behind unsettled tasks enqueued before it: no task is ever put ahead
\* of one already in the chain.
C28_QueueProgress ==
    /\ \A s \in Posts : (req[s].pc # "idle") ~> (req[s].pc = "done")
    /\ [][\A s \in Posts : req[s].pc = "done" => req'[s] = req[s]]_vars
    /\ [](\A s \in Posts :
             req[s].pc = "queued" =>
                 /\ InChain(writeQueue, s)
                 /\ \A t \in Ahead(writeQueue, s) : req[t].pc # "done")
    /\ [][\A s \in Posts :
             InChain(writeQueue, s) /\ InChain(writeQueue', s) =>
                 Ahead(writeQueue', s) \subseteq Ahead(writeQueue, s)]_vars

\* two writes were in the chain at the same time, the first one failed, and
\* both submissions have been answered
C28_Witness ==
    \E s1, s2 \in Posts :
        /\ variant = "file"
        /\ s1 \in req[s2].inflight
        /\ req[s1].pc = "done"
        /\ req[s1].failedWrite
        /\ req[s2].pc = "done"
        /\ req[s2].status = 500

-----------------------------------------------------------------------------
\* Properties of the startup migration

StartupStep == ~hist.up /\ hist'.up

\* C29: at startup, an empty store with a legacy file that parses and holds N
\* records shows exactly those N records afterwards; a store that holds at
\* least one record is left as it is, whatever the legacy file holds; a legacy
\* file that is missing, cannot be read or does not parse is no legacy data,
\* and the startup goes on with the store as it is. The legacy file is never
\* changed.
C29_LegacyMigration ==
    [][StartupStep =>
          /\ file' = file
          /\ (IsEmptyStore(hist.db) /\ file \in {JSONStringify(data) : data \in Snapshots}) =>
                 /\ JSONStringify(hist'.db) = file
                 /\ Len(hist'.db.consultations) + Len(hist'.db.phoneLeads)
                        = Len(RecsOf(file, "consultations")) + Len(RecsOf(file, "phoneLeads"))
          /\ ~IsEmptyStore(hist.db) => hist'.db = hist.db
          /\ file \in {Absent, Unreadable, <<>>, <<OpenTok>>} => hist'.db = hist.db]_vars

\* a second startup, with records imported from the legacy file by the first
\* and a record appended since, has left the store as it found it
C29_Witness ==
    /\ hist.up
    /\ hist.starts = 2
    /\ hist.db = hist.found
    /\ Len(hist.db.consultations) = MaxRecords
    /\ Len(hist.db.phoneLeads) = 1
    /\ JSONStringify(hist.db) # file

-----------------------------------------------------------------------------
\* Properties of the accepted records under reads

IdsIn(text) ==
    {RecsOf(text, "consultations")[i].id : i \in 1..Len(RecsOf(text, "consultations"))}
    \cup {RecsOf(text, "phoneLeads")[i].id : i \in 1..Len(RecsOf(text, "phoneLeads"))}

ReadReturns(g) == req[g].pc = "read" /\ req'[g].pc = "done"

\* C30: in the file server, a read that returns after a submission was
\* answered 201 returns a snapshot that holds the record of that submission,
\* whatever the interleaving of the reads and the writes and also when the data
\* file does not exist at the first requests; and no step of a read request
\* changes the records the file holds.
C30_AcceptedStayReadable ==
    [][variant = "file" =>
          \A g \in Gets :
              /\ ReadReturns(g) =>
                     /\ req'[g].status = 200
                     /\ Accepted \subseteq IdsIn(req'[g].readText)
              /\ req'[g] # req[g] => IdsIn(file') = IdsIn(file)]_vars

-----------------------------------------------------------------------------
\* Properties of the order of the checks

Arrives(s) == req[s].pc = "idle" /\ req'[s].pc # "idle"

\* C31: a submission is counted by the limiter in the step in which it
\* arrives, before anything else is done for it, and no later step of the
\* request (validation, duplicate check, write, outbound call, whatever its
\* outcome) changes the rate-limit table; a submission the limiter rejects is
\* answered 429 in that same step, builds no record, touches neither the
\* duplicate table nor the record store, and takes no further step.
C31_LimiterFirst ==
    [][\A s \in Posts :
          /\ Arrives(s) =>
                 /\ Counted(rateLimitKey("ip1", req'[s].endpoint))
                 /\ StoreUntouched
                 /\ req'[s].record = NoRecord
                 /\ req'[s].limited <=> (req'[s].pc = "done" /\ req'[s].status = 429)
                 /\ ~req'[s].limited => req'[s].pc = "body"
          /\ (req[s].pc # "idle" /\ req'[s] # req[s]) => rateLimitStore' = rateLimitStore
          /\ (req[s].pc = "done" /\ req[s].status = 429) => req'[s] = req[s]]_vars

\* one submission has been answered 429 and another, which was counted too,
\* has been rejected for its body or has met a storage or outbound fault
C31_Witness ==
    \E s1, s2 \in Posts :
        /\ req[s1].pc = "done" /\ req[s1].status = 429
        /\ req[s1].record = NoRecord
        /\ req[s2].pc = "done" /\ req[s2].status \in {400, 500, 502}
        /\ req[s2].counted

-----------------------------------------------------------------------------
\* Properties of the duplicate window

\* what each detector compares of submission i: the scan the fields of the
\* record, the table the key
ScanKey(i) ==
    LET b == hist.subs[i].body
    IN EqualityKey(NewRecord(0, b.endpoint, Normalized(b), 0))

TableKey(i) ==
    LET b == hist.subs[i].body
    IN duplicateKeyOf(b.endpoint, Normalized(b))

SetMax(S) == CHOOSE x \in S : \A y \in S : y <= x

\* the submission is rejected exactly when the last accepted submission of
\* the same lead before it is at most 10 minutes old
Anchored(decisions, same(_, _)) ==
    \A j \in 1..Len(decisions) :
        LET accepted == {i \in 1..(j - 1) : same(i, j) /\ ~decisions[i]}
        IN decisions[j] <=>
               /\ accepted # {}
               /\ hist.subs[j].at - hist.subs[SetMax(accepted)].at <= DUPLICATE_WINDOW_MS

SameScanKey(i, j) == ScanKey(i) = ScanKey(j)

SameTableKey(i, j) == TableKey(i) = TableKey(j)

\* C32: with either detector the window of a lead starts at its last accepted
\* submission: a rejected duplicate stores no record and marks no time, so a
\* submission is rejected exactly when the last accepted one of its lead is at
\* most 10 minutes old (exactly 10 minutes: rejected; more: accepted), however
\* many rejected duplicates lie in between.
C32_WindowAnchored ==
    /\ Anchored(hist.scan, SameScanKey)
    /\ Anchored(hist.table, SameTableKey)
    /\ Len(FileRecords) = Cardinality({i \in 1..Len(hist.scan) : ~hist.scan[i]})
    /\ \A k \in DOMAIN duplicateStore :
          \E i \in 1..Len(hist.table) :
              /\ ~hist.table[i]
              /\ TableKey(i) = k
              /\ duplicateStore[k] = hist.subs[i].at

\* one body three times: accepted, rejected exactly 10 minutes later, and
\* accepted 1 ms after that, by both detectors
C32_Witness ==
    /\ Len(hist.subs) = 3
    /\ hist.subs[2].body = hist.subs[1].body
    /\ hist.subs[3].body = hist.subs[1].body
    /\ hist.subs[2].at = hist.subs[1].at + DUPLICATE_WINDOW_MS
    /\ hist.subs[3].at = hist.subs[2].at + 1
    /\ hist.scan = <<FALSE, TRUE, FALSE>>
    /\ hist.table = <<FALSE, TRUE, FALSE>>

-----------------------------------------------------------------------------
\* Properties of the key table

\* the key was last marked at a time at most 10 minutes before t
MarkedWithin(marked, k, t) ==
    /\ k \in DOMAIN marked
    /\ t - marked[k] <= DUPLICATE_WINDOW_MS

\* C33: a check of a key at time now answers true exactly when the key was
\* last marked at a time t, 0 included, with now - t <= 10 minutes; the
\* eviction of the check removes exactly the entries with now - t > 10
\* minutes, so the answer is the one the table without any eviction gives.
C33_TableCheck ==
    LET c == hist.last
    IN c.key # <<>> =>
          /\ c.dup <=> MarkedWithin(c.marked, c.key, c.at)
          /\ DOMAIN c.after = {k \in DOMAIN c.before : MarkedWithin(c.before, k, c.at)}
          /\ \A k \in DOMAIN c.after : c.after[k] = c.before[k]
          /\ \A k \in DOMAIN c.before : c.before[k] = c.marked[k]

-----------------------------------------------------------------------------
\* Properties of the pages of a result

\* the items of pages 1..k of the list, one after the other
RECURSIVE PagesUpTo(_, _, _)
PagesUpTo(items, k, pageSize) ==
    IF k = 0 THEN <<>>
    ELSE PagesUpTo(items, k - 1, pageSize) \o paginate(items, k, pageSize).items

\* C34: for the snapshot, the filters and the pageSize of an answered query,
\* the items of pages 1..totalPages, one after the other, are the sorted
\* filtered list: every filtered record is on exactly one page, every page but
\* the last holds pageSize items and the last holds the rest, createdAt does
\* not increase within or across the pages, and the page that was returned is
\* the page of that number.
C34_PagesPartition ==
    Answered =>
        LET size == query.options.pageSize
            pages == query.page.totalPages
            all == PagesUpTo(Sorted, pages, size)
        IN /\ all = Sorted
           /\ \A i \in 1..Len(Filtered) :
                 Cardinality({j \in 1..Len(all) : all[j] = Filtered[i]}) = 1
           /\ \A k \in 1..pages :
                 /\ paginate(Sorted, k, size).page = k
                 /\ k < pages => Len(paginate(Sorted, k, size).items) = size
                 /\ k = pages =>
                       Len(paginate(Sorted, k, size).items) = Len(Sorted) - (pages - 1) * size
           /\ \A i, j \in 1..Len(all) : i < j => OrderTime(all[i]) >= OrderTime(all[j])
           /\ pages > 0 => query.page.items = paginate(Sorted, query.page.page, size).items

\* a result of two pages, the last one shorter than pageSize, with two
\* records of one createdAt on different pages
C34_Witness ==
    /\ Answered
    /\ query.page.totalPages = 2
    /\ query.page.page = 2
    /\ Len(query.page.items) < query.options.pageSize
    /\ OrderTime(Sorted[query.options.pageSize]) = OrderTime(query.page.items[1])

\* C35: in every paginate result hasPrev holds exactly when the returned page
\* is greater than 1 and hasNext exactly when it is less than totalPages; both
\* are false when nothing matches; and when hasNext holds, page + 1 returns
\* items, under another page number and from other places of the list.
C35_PageFlags ==
    Answered =>
        LET r == query.page
            next == paginate(Sorted, r.page + 1, r.pageSize)
        IN /\ r.hasPrev <=> r.page > 1
           /\ r.hasNext <=> r.page < r.totalPages
           /\ r.total = 0 => (~r.hasPrev /\ ~r.hasNext)
           /\ r.hasNext =>
                 /\ next.items # <<>>
                 /\ next.page = r.page + 1
                 /\ next.items = SubSeq(Sorted, r.page * r.pageSize + 1,
                                        r.page * r.pageSize + Len(next.items))

\* the last of several pages was asked for, or a page past it: hasPrev and no
\* hasNext; and the first of several pages: hasNext and no hasPrev
C35_Witness ==
    /\ Answered
    /\ query.page.totalPages >= 2
    /\ query.options.page > query.page.totalPages
    /\ query.page.hasPrev
    /\ ~query.page.hasNext

-----------------------------------------------------------------------------
\* Properties of the records whose createdAt is no time

Unparsed(record) == DateParse(record.createdAt) = NaN

\* a bound of the time range is in effect
Bounded(searchParams) == Parsable(searchParams.startAt) \/ Parsable(searchParams.endAt)

\* no filter other than the time range is in effect
Unfiltered(searchParams) ==
    /\ ReadText(searchParams.phone, 20) = <<>>
    /\ ReadText(searchParams.name, 40) = <<>>
    /\ ReadText(searchParams.sourcePage, 40) = <<>>
    /\ ReadText(searchParams.source, 40) = <<>>
    /\ ReadText(searchParams.product, 30) = <<>>

\* the local day (UTC+8) of a time, counted from the epoch
LocalDay(t) == (t + LocalOffsetMs) \div MsPerDay

\* the records created on the local day of the time t, up to t
CreatedToday(records, t) ==
    {i \in 1..Len(records) :
        /\ ~Unparsed(records[i])
        /\ LocalDay(DateParse(records[i].createdAt)) = LocalDay(t)
        /\ DateParse(records[i].createdAt) <= t}

\* C36: a record whose createdAt does not parse is in no query result when a
\* startAt or an endAt bound is in effect; with neither bound it is kept by the
\* time range (it is in the result of a query without filters) and comes after
\* every record whose createdAt parses; the same-day counts of the summary
\* count no such record.
C36_UnparsedCreatedAt ==
    /\ Answered =>
          LET records == JSONParse(file)[query.kind]
          IN /\ Bounded(query.params) =>
                    /\ \A i \in 1..Len(Sorted) : ~Unparsed(Sorted[i])
                    /\ \A i \in 1..Len(query.page.items) : ~Unparsed(query.page.items[i])
             /\ (~Bounded(query.params) /\ Unfiltered(query.params)) =>
                    \A i \in 1..Len(records) :
                        Unparsed(records[i]) => \E j \in 1..Len(Sorted) : Sorted[j] = records[i]
             /\ ~Bounded(query.params) =>
                    \A i, j \in 1..Len(Sorted) :
                        (Unparsed(Sorted[i]) /\ ~Unparsed(Sorted[j])) => j < i
             /\ \A i, j \in 1..Len(query.page.items) :
                    (Unparsed(query.page.items[i]) /\ ~Unparsed(query.page.items[j])) => j < i
    /\ SummaryAnswered =>
          LET data == JSONParse(file)
          IN /\ query.summary.today.consultations =
                    Cardinality(CreatedToday(data.consultations, now))
             /\ query.summary.today.phoneLeads =
                    Cardinality(CreatedToday(data.phoneLeads, now))

\* a query with a bound has returned records of a store that holds a record
\* whose createdAt is no time
C36_Witness ==
    /\ Answered
    /\ Bounded(query.params)
    /\ query.page.items # <<>>
    /\ \E i \in 1..Len(JSONParse(file)[query.kind]) : Unparsed(JSONParse(file)[query.kind][i])

-----------------------------------------------------------------------------
\* Properties of the summary's totals and same-day counts

RECURSIVE SumCounts(_)
SumCounts(list) == IF list = <<>> THEN 0 ELSE Head(list).count + SumCounts(Tail(list))

\* the local midnight (UTC+8) that starts the local day of the time t
LocalMidnight(t) == LocalDay(t) * MsPerDay - LocalOffsetMs

\* the records with local midnight <= createdAt <= t
SinceMidnight(records, t) ==
    {i \in 1..Len(records) :
        /\ ~Unparsed(records[i])
        /\ LocalMidnight(t) <= DateParse(records[i].createdAt)
        /\ DateParse(records[i].createdAt) <= t}

\* C37: in every summary the totals are the numbers of stored records, the
\* counts of consultationBySourcePage sum to totals.consultations and those of
\* phoneLeadBySource to totals.phoneLeads, each same-day count is at most its
\* total, and it is the number of records with local midnight <= createdAt <=
\* now.
C37_SummaryConsistent ==
    SummaryAnswered =>
        LET data == JSONParse(file)
            sum == query.summary
        IN /\ sum.totals.consultations = Len(data.consultations)
           /\ sum.totals.phoneLeads = Len(data.phoneLeads)
           /\ SumCounts(sum.consultationBySourcePage) = sum.totals.consultations
           /\ SumCounts(sum.phoneLeadBySource) = sum.totals.phoneLeads
           /\ sum.today.consultations <= sum.totals.consultations
           /\ sum.today.phoneLeads <= sum.totals.phoneLeads
           /\ sum.today.consultations = Cardinality(SinceMidnight(data.consultations, now))
           /\ sum.today.phoneLeads = Cardinality(SinceMidnight(data.phoneLeads, now))

\* at a local midnight the summary counts the record created at that instant,
\* and neither the one created 1 ms before nor the one created later
C37_Witness ==
    /\ SummaryAnswered
    /\ now = Midnight
    /\ query.summary.totals.consultations = 3
    /\ query.summary.today.consultations = 1
    /\ Len(query.summary.consultationBySourcePage) = 1
    /\ \E i \in 1..3 : DateParse(JSONParse(file).consultations[i].createdAt) = Midnight - 1
    /\ \E i \in 1..3 : DateParse(JSONParse(file).consultations[i].createdAt) = Midnight
    /\ \E i \in 1..3 : DateParse(JSONParse(file).consultations[i].createdAt) > Midnight

-----------------------------------------------------------------------------
\* Properties of the marks of the key table in the outbound-sync server

\* the step marks no key: every entry of the table was there, with its time
NoMark ==
    \A k \in DOMAIN duplicateStore' :
        k \in DOMAIN duplicateStore /\ duplicateStore'[k] = duplicateStore[k]

\* the outbound record of submission s has been created
Created(records, s) == \E i \in 1..Len(records) : records[i].id = s

KeyOfPost(r) == duplicateKeyOf(r.endpoint, r.record)

\* the step in which the outbound call of s returns and s is answered 201
AcceptStep(s) ==
    /\ req[s].pc = "sync"
    /\ req'[s].pc = "done"
    /\ req'[s].status = 201

\* C38: in the outbound-sync server a submission is answered 201 in the step
\* in which its outbound record has been created, and its key is marked in
\* that step and in no other: every marked key is the key of a submission
\* answered 201 whose outbound record exists, and no step of a submission that
\* is answered 429, 400, 409, 413 or 502 marks a key.
C38_MarkedAfterCreation ==
    /\ [][variant = "sync" =>
             \A s \in Posts :
                 /\ (req'[s].pc = "done" /\ req'[s].status = 201 /\ req[s].pc # "done") =>
                        /\ AcceptStep(s)
                        /\ Created(outbound', s)
                        /\ KeyOfPost(req'[s]) \in DOMAIN duplicateStore'
                        /\ duplicateStore'[KeyOfPost(req'[s])] = now
                 /\ (req'[s] # req[s] /\ ~AcceptStep(s)) => NoMark
                 /\ (req'[s].pc = "done" /\ req[s].pc # "done" /\ ~AcceptStep(s)) =>
                        /\ req'[s].status \in {429, 400, 409, 413, 502}
                        /\ outbound' = outbound]_vars
    /\ [](variant = "sync" =>
             \A k \in DOMAIN duplicateStore :
                 \E s \in Posts :
                     /\ req[s].pc = "done"
                     /\ req[s].status = 201
                     /\ KeyOfPost(req[s]) = k
                     /\ Created(outbound, s))

\* one submission was answered 201 and its key is marked; another one met an
\* outbound fault, was answered 502 and its key is not in the table
C38_Witness ==
    \E s1, s2 \in Posts :
        /\ variant = "sync"
        /\ req[s1].pc = "done" /\ req[s1].status = 201
        /\ KeyOfPost(req[s1]) \in DOMAIN duplicateStore
        /\ req[s2].pc = "done" /\ req[s2].status = 502
        /\ KeyOfPost(req[s2]) \notin DOMAIN duplicateStore

====
